---- MODULE Spec2Model ----
(***************************************************************************)
(* Maze environment of hw1/PA1 (environments/maze_env.py): procedural grid *)
(* generation, the step/transition engine and episode termination.         *)
(*                                                                         *)
(* Cells are "empty" (None in the grid), "wall" (Wall) and "coin" (Coin).  *)
(* Rewards 0.0 and 1.0 are written 0 and 1.                                *)
(***************************************************************************)
EXTENDS Integers, Sequences, FiniteSets, TLC

(***************************************************************************)
(* Bounds of the model.                                                    *)
(***************************************************************************)
Size == 5          \* side of the (square) maze
StepCap == 3       \* step calls explored after a reset
DeepStepCap == 5   \* the same, for the few configurations explored in depth

width == Size
height == Size

Coords == 0..(Size - 1)
Cells == Coords \X Coords
Kinds == {"empty", "wall", "coin"}

(***************************************************************************)
(* Grid accessors.                                                         *)
(***************************************************************************)
InBounds(p) == /\ 0 <= p[1] /\ p[1] < width
               /\ 0 <= p[2] /\ p[2] < height

CountCoins(g) == Cardinality({c \in Cells : g[c] = "coin"})

(***************************************************************************)
(* _gen_grid, first part: empty grid and outer boundary.                   *)
(***************************************************************************)
OuterWalls ==
  [c \in Cells |->
     IF c[2] = 0 \/ c[2] = height - 1 \/ c[1] = 0 \/ c[1] = width - 1
     THEN "wall" ELSE "empty"]

(***************************************************************************)
(* _add_wall_from_config: one wall segment.  A segment is a record         *)
(* [type, coord, start, end, gaps]; coord is the 'y' of a horizontal and   *)
(* the 'x' of a vertical segment, gaps a sequence of <<gap_start,gap_end>>.*)
(***************************************************************************)
InGap(gaps, v) == \E k \in 1..Len(gaps) : gaps[k][1] <= v /\ v <= gaps[k][2]

AddWallFromConfigOpenEnd(g, config) ==
  [c \in Cells |->
     IF config.type = "horizontal"
     THEN IF /\ c[2] = config.coord
             /\ config.start <= c[1] /\ c[1] < config.end
             /\ ~InGap(config.gaps, c[1])
             /\ g[c] = "empty"
          THEN "wall" ELSE g[c]
     ELSE IF config.type = "vertical"
     THEN IF /\ c[1] = config.coord
             /\ config.start <= c[2] /\ c[2] < config.end
             /\ ~InGap(config.gaps, c[2])
             /\ g[c] = "empty"
          THEN "wall" ELSE g[c]
     ELSE g[c]]

AddWallFromConfig(g, config) ==
  [c \in Cells |->
     IF config.type = "horizontal"
     THEN IF /\ c[2] = config.coord
             /\ config.start <= c[1] /\ c[1] <= config.end
             /\ ~InGap(config.gaps, c[1])
             /\ g[c] = "empty"
          THEN "wall" ELSE g[c]
     ELSE IF config.type = "vertical"
     THEN IF /\ c[1] = config.coord
             /\ config.start <= c[2] /\ c[2] <= config.end
             /\ ~InGap(config.gaps, c[2])
             /\ g[c] = "empty"
          THEN "wall" ELSE g[c]
     ELSE g[c]]

(***************************************************************************)
(* _add_default_internal_walls: the pattern used when walls_config is      *)
(* empty.  Every cell it names must lie inside the grid.                   *)
(***************************************************************************)
RoomSize == 4
room_x == width \div 2
room_y == height \div 4

DefaultWallCellsOf(w, h) ==
  LET rx == w \div 2
      ry == h \div 4
      gapRows == {6, 7, 8}
      gapCols == {6, 7, 8, w - 7, w - 8, w - 9}
      left  == {<<5, j>> : j \in {j \in 3..(h - 4) : j \notin gapRows}}
      right == {<<w - 6, j>> : j \in {j \in 3..(h - 4) : j \notin gapRows}}
      horiz == {<<i, h \div 2>> : i \in {i \in 3..(w - 4) : i \notin gapCols}}
      room  == {<<rx + i, ry>> : i \in 0..(RoomSize - 1)}
               \cup {<<rx + i, ry + RoomSize - 1>> : i \in 0..(RoomSize - 1)}
               \cup {<<rx, ry + j>> : j \in 0..(RoomSize - 1)}
               \cup {<<rx + RoomSize - 1, ry + j>> : j \in 0..(RoomSize - 1)}
  IN left \cup right \cup horiz \cup room

DefaultWallCells == DefaultWallCellsOf(width, height)

DefaultEntranceOf(w, h) == {<<w \div 2 + 1, h \div 4>>, <<w \div 2 + 2, h \div 4>>}

DefaultEntrance == {<<room_x + 1, room_y>>, <<room_x + 2, room_y>>}

AddDefaultInternalWalls(g) ==
  [c \in Cells |->
     IF c \in DefaultEntrance THEN "empty"
     ELSE IF c \in DefaultWallCells THEN "wall"
     ELSE g[c]]

RECURSIVE AddWalls(_, _)
AddWalls(g, cfgs) ==
  IF cfgs = <<>> THEN g
  ELSE AddWalls(AddWallFromConfig(g, Head(cfgs)), Tail(cfgs))

AddInternalWalls(g, walls_config) ==
  IF walls_config = <<>> THEN AddDefaultInternalWalls(g)
  ELSE AddWalls(g, walls_config)

(***************************************************************************)
(* Reward placement.  Each operator gives the cells that receive a coin;   *)
(* the number placed is the cardinality of that set.                       *)
(***************************************************************************)
OuterBandWithoutCorners ==
  {<<i, 1>> : i \in 2..(width - 3)}
  \cup {<<i, height - 2>> : i \in 2..(width - 3)}
  \cup {<<1, j>> : j \in 2..(height - 3)}
  \cup {<<width - 2, j>> : j \in 2..(height - 3)}

OuterBand ==
  {<<i, 1>> : i \in 1..(width - 2)}
  \cup {<<i, height - 2>> : i \in 1..(width - 2)}
  \cup {<<1, j>> : j \in 2..(height - 3)}
  \cup {<<width - 2, j>> : j \in 2..(height - 3)}

OuterBoundaryRewardCells(g) == {c \in OuterBand : g[c] = "empty"}

IsNextToWallDiagonal(g, x, y) ==
  \E d \in {<<0, 1>>, <<0, -1>>, <<1, 0>>, <<-1, 0>>,
            <<1, 1>>, <<1, -1>>, <<-1, 1>>, <<-1, -1>>} :
     g[<<x + d[1], y + d[2]>>] = "wall"

IsNextToWall(g, x, y) ==
  \E d \in {<<0, 1>>, <<0, -1>>, <<1, 0>>, <<-1, 0>>} :
     g[<<x + d[1], y + d[2]>>] = "wall"

InnerBoundaryRewardCells(g) ==
  {c \in (2..(width - 3)) \X (2..(height - 3)) :
     g[c] = "empty" /\ IsNextToWall(g, c[1], c[2])}

\* _place_inner_boundary_rewards as a scan: the cells of a sequence are
\* visited one after the other, each on the grid left by the previous ones
RECURSIVE InnerScan(_, _)
InnerScan(g, order) ==
  IF order = <<>> THEN g
  ELSE LET c == Head(order) IN
       InnerScan(IF g[c] = "empty" /\ IsNextToWall(g, c[1], c[2])
                 THEN [g EXCEPT ![c] = "coin"] ELSE g,
                 Tail(order))

\* the order of the loops (i outer, j inner), and the transposed order
InnerColumnsFirst ==
  [n \in 1..((width - 4) * (height - 4)) |->
     <<2 + ((n - 1) \div (height - 4)), 2 + ((n - 1) % (height - 4))>>]

InnerRowsFirst ==
  [n \in 1..((width - 4) * (height - 4)) |->
     <<2 + ((n - 1) % (width - 4)), 2 + ((n - 1) \div (width - 4))>>]

PutCoins(g, cs) == [c \in Cells |-> IF c \in cs THEN "coin" ELSE g[c]]

\* the variant whose inner pass, in mode both, takes the coins of the outer
\* pass for walls
PlaceRewardsCoinsAsWalls(g, reward_type) ==
  IF reward_type = "outer"
  THEN LET o == OuterBoundaryRewardCells(g)
       IN [grid |-> PutCoins(g, o), total_rewards |-> Cardinality(o)]
  ELSE IF reward_type = "inner"
  THEN LET i == InnerBoundaryRewardCells(g)
       IN [grid |-> PutCoins(g, i), total_rewards |-> Cardinality(i)]
  ELSE LET o  == OuterBoundaryRewardCells(g)
           g1 == PutCoins(g, o)
           i  == InnerBoundaryRewardCells(
                   [c \in Cells |-> IF c \in o THEN "wall" ELSE g[c]])
       IN [grid |-> PutCoins(g1, i),
           total_rewards |-> Cardinality(o) + Cardinality(i)]

\* _place_rewards: the grid and the value assigned to total_rewards
PlaceRewards(g, reward_type) ==
  IF reward_type = "outer"
  THEN LET o == OuterBoundaryRewardCells(g)
       IN [grid |-> PutCoins(g, o), total_rewards |-> Cardinality(o)]
  ELSE IF reward_type = "inner"
  THEN LET i == InnerBoundaryRewardCells(g)
       IN [grid |-> PutCoins(g, i), total_rewards |-> Cardinality(i)]
  ELSE LET o  == OuterBoundaryRewardCells(g)
           g1 == PutCoins(g, o)
           i  == InnerBoundaryRewardCells(g1)
       IN [grid |-> PutCoins(g1, i),
           total_rewards |-> Cardinality(o) + Cardinality(i)]

(***************************************************************************)
(* _apply_custom_cells: overrides [x, y, type] applied in list order on a  *)
(* record [grid, total_rewards].                                           *)
(***************************************************************************)
ApplyCustomCellAlwaysCounts(s, cell_cfg) ==
  LET c == <<cell_cfg.x, cell_cfg.y>> IN
  IF cell_cfg.type = "wall"
  THEN [grid |-> [s.grid EXCEPT ![c] = "wall"],
        total_rewards |-> s.total_rewards]
  ELSE IF cell_cfg.type = "empty"
  THEN [grid |-> [s.grid EXCEPT ![c] = "empty"],
        total_rewards |-> IF s.grid[c] = "coin"
                          THEN s.total_rewards - 1 ELSE s.total_rewards]
  ELSE IF cell_cfg.type = "coin"
  THEN [grid |-> [s.grid EXCEPT ![c] = "coin"],
        total_rewards |-> s.total_rewards + 1]
  ELSE s

ApplyCustomCell(s, cell_cfg) ==
  LET c == <<cell_cfg.x, cell_cfg.y>> IN
  IF cell_cfg.type = "wall"
  THEN [grid |-> [s.grid EXCEPT ![c] = "wall"],
        total_rewards |-> s.total_rewards]
  ELSE IF cell_cfg.type = "empty"
  THEN [grid |-> [s.grid EXCEPT ![c] = "empty"],
        total_rewards |-> IF s.grid[c] = "coin"
                          THEN s.total_rewards - 1 ELSE s.total_rewards]
  ELSE IF cell_cfg.type = "coin"
  THEN [grid |-> [s.grid EXCEPT ![c] = "coin"],
        total_rewards |-> IF s.grid[c] # "coin"
                          THEN s.total_rewards + 1 ELSE s.total_rewards]
  ELSE s

RECURSIVE ApplyCustomCells(_, _)
ApplyCustomCells(s, custom_cells) ==
  IF custom_cells = <<>> THEN s
  ELSE ApplyCustomCells(ApplyCustomCell(s, Head(custom_cells)),
                        Tail(custom_cells))

(***************************************************************************)
(* clear_rectangle / _apply_clear_areas: rectangles [x1, y1, x2, y2].      *)
(***************************************************************************)
InRect(c, area) == /\ area.x1 <= c[1] /\ c[1] <= area.x2
                   /\ area.y1 <= c[2] /\ c[2] <= area.y2

ClearRectangleKeepsCount(s, area) ==
  [grid |-> [c \in Cells |-> IF InRect(c, area) THEN "empty" ELSE s.grid[c]],
   total_rewards |-> s.total_rewards]

ClearRectangle(s, area) ==
  [grid |-> [c \in Cells |-> IF InRect(c, area) THEN "empty" ELSE s.grid[c]],
   total_rewards |-> s.total_rewards
       - Cardinality({c \in Cells : InRect(c, area) /\ s.grid[c] = "coin"})]

RECURSIVE ApplyClearAreas(_, _)
ApplyClearAreas(s, clear_areas) ==
  IF clear_areas = <<>> THEN s
  ELSE ApplyClearAreas(ClearRectangle(s, Head(clear_areas)), Tail(clear_areas))

(***************************************************************************)
(* _gen_grid: the whole generation for a configuration.                    *)
(***************************************************************************)
GenGrid(c) ==
  LET walls  == AddInternalWalls(OuterWalls, c.walls_config)
      placed == PlaceRewards(walls, c.reward_type)
      custom == ApplyCustomCells(placed, c.custom_cells)
  IN ApplyClearAreas(custom, c.clear_areas)

(***************************************************************************)
(* Configurations (the constructor arguments of MazeEnv).  The lists are   *)
(* drawn from small families that cover: segments with gaps, overlapping   *)
(* segments and segments reaching the border; overrides of each kind, on   *)
(* coins, on empty cells, repeated, and on the border; rectangles inside   *)
(* the maze, over all of it, and reaching the border.                      *)
(***************************************************************************)
Seg(t, k, s, e, gs) == [type |-> t, coord |-> k, start |-> s, end |-> e, gaps |-> gs]
Cell(x, y, t) == [x |-> x, y |-> y, type |-> t]
Rect(x1, y1, x2, y2) == [x1 |-> x1, y1 |-> y1, x2 |-> x2, y2 |-> y2]

SegTop == Seg("horizontal", 1, 2, 2, <<>>)
SegV == Seg("vertical", 2, 1, Size - 2, <<(<<2, 2>>)>>)
SegH == Seg("horizontal", Size - 2, 0, 2, <<>>)

WallsConfigs == {<<SegTop>>, <<SegV, SegH>>, <<SegH, SegV>>}

CustomCellsLists ==
  { <<>>,
    <<Cell(1, 2, "wall")>>,
    <<Cell(2, 2, "coin"), Cell(2, 2, "coin")>>,
    <<Cell(1, 2, "empty"), Cell(1, 2, "empty")>>,
    <<Cell(2, 2, "coin"), Cell(2, 2, "wall")>>,
    <<Cell(0, 1, "empty")>> }

ClearAreasLists ==
  { <<>>,
    <<Rect(1, 1, Size - 2, Size - 2)>>,
    <<Rect(1, 2, Size - 2, Size - 2)>>,
    <<Rect(0, 1, 1, 1)>> }

RewardTypes == {"outer", "inner", "both"}
Starts == {[pos |-> <<1, 1>>, dir |-> 3],
           [pos |-> <<1, 1>>, dir |-> 2],
           [pos |-> <<1, 2>>, dir |-> 0]}
MaxStepsChoices == {1, 3}

AllConfigs ==
  {[reward_type |-> rt, walls_config |-> wc, custom_cells |-> cc,
    clear_areas |-> ca, agent_start_pos |-> st.pos,
    agent_start_dir |-> st.dir, max_steps |-> ms] :
     rt \in RewardTypes, wc \in WallsConfigs, cc \in CustomCellsLists,
     ca \in ClearAreasLists, st \in Starts, ms \in MaxStepsChoices}

\* a cell the agent may enter: None, or an object whose can_overlap() is true
\* (Coin.can_overlap)
CanOverlapAnything(cell) == TRUE

CanOverlap(cell) == cell # "wall"

StartCellFree(c) == GenGrid(c).grid[c.agent_start_pos] # "wall"

\* reset() asserts that the start cell is free or can be overlapped
Configs == {c \in AllConfigs : StartCellFree(c)}

\* configurations whose episodes are explored up to DeepStepCap steps
DeepConfigs ==
  {c \in Configs : /\ c.walls_config = <<SegTop>>
                   /\ c.custom_cells = <<>>
                   /\ c.clear_areas = <<>>
                   /\ c.max_steps = 3}

(***************************************************************************)
(* State.                                                                  *)
(***************************************************************************)
VARIABLES
  cfg,                \* constructor arguments, fixed for the run
  cap,                \* number of step calls explored after a reset
  grid,               \* self.grid
  agent_pos,          \* self.agent_pos
  agent_dir,          \* self.agent_dir
  step_count,         \* self.step_count
  rewards_collected,  \* self.rewards_collected
  total_rewards,      \* self.total_rewards
  op,                 \* last call: "init", "reset" or "step"
  action,             \* argument of the last step call
  old_pos,            \* agent position before the last step call
  ret,                \* what the last call returned
  calls,              \* step calls since the last reset
  collected,          \* cells whose coin was collected since the last reset
  ended,              \* a step since the last reset returned terminated or truncated
  history,            \* the first generation, and whether a later reset followed play
  state,              \* StateMachineAgent.state
  last_observation,   \* StateMachineAgent.last_observation
  decision,           \* what the agent's last decide() returned
  agent_op,           \* last call on the agent: "init", "perceive", "decide" or "reset"
  twin,               \* a second StateMachineAgent: [state, last_observation, decision]
  rules_agent,        \* a ProductionRulesAgent: [last_observation, returned, op]
  gen_pos,            \* position inside _gen_grid: [phase, k], idle outside it
  turn_corner_run,    \* consecutive decisions of an episode run that ended in TURN_CORNER
  maze                \* a maze of any size under generation: [size, phase, k, grid]

vars == <<cfg, cap, grid, agent_pos, agent_dir, step_count, rewards_collected,
          total_rewards, op, action, old_pos, ret, calls, collected,
          ended, history, state, last_observation, decision, agent_op, twin,
          rules_agent, gen_pos, turn_corner_run, maze>>

agent_vars == <<state, last_observation, decision, agent_op, twin, rules_agent,
                turn_corner_run, maze>>

env_vars == <<cfg, cap, grid, agent_pos, agent_dir, step_count,
              rewards_collected, total_rewards, op, action, old_pos, ret,
              calls, collected, ended, history, gen_pos>>

GenIdle == [phase |-> "idle", k |-> 0]

NoMaze == [size |-> 0, phase |-> "none", k |-> 0, grid |-> <<>>]

TurnLeftAction == 0
TurnRightAction == 1
MoveForwardAction == 2
Actions == {TurnLeftAction, TurnRightAction, MoveForwardAction}

(***************************************************************************)
(* StateMachineAgent.  An observation is modelled by the object-type       *)
(* channel of its 3 x 3 image, indexed by <<view_x, view_y>>; the agent    *)
(* reads the cells <<1, 0>> (TF), <<0, 1>> (ML) and <<2, 1>> (MR).         *)
(***************************************************************************)
FIND_WALL == "FIND_WALL"
FOLLOW_WALL == "FOLLOW_WALL"
TURN_CORNER == "TURN_CORNER"
AgentStates == {FIND_WALL, FOLLOW_WALL, TURN_CORNER}

TURN_LEFT == 0
TURN_RIGHT == 1
MOVE_FORWARD == 2

\* OBJECT_TO_IDX of the cell kinds (a Coin is a Ball) and of the agent
ObjectToIdx(kind) ==
  CASE kind = "empty" -> 1
    [] kind = "wall" -> 2
    [] kind = "coin" -> 6
    [] kind = "agent" -> 10

ImageCells == (0..2) \X (0..2)

\* last_observation is None
NoObservation == [none |-> TRUE, image |-> [v \in ImageCells |-> 0]]

Observation(image) == [none |-> FALSE, image |-> image]

\* the variant whose left flag is also raised by a wall on the right
PerceptionLeftOrRight(observation) ==
  [TF |-> observation.image[<<1, 0>>] = ObjectToIdx("wall"),
   ML |-> \/ observation.image[<<0, 1>>] = ObjectToIdx("wall")
          \/ observation.image[<<2, 1>>] = ObjectToIdx("wall"),
   MR |-> observation.image[<<2, 1>>] = ObjectToIdx("wall")]

\* perceive: the three wall flags
Perception(observation) ==
  [TF |-> observation.image[<<1, 0>>] = ObjectToIdx("wall"),
   ML |-> observation.image[<<0, 1>>] = ObjectToIdx("wall"),
   MR |-> observation.image[<<2, 1>>] = ObjectToIdx("wall")]

\* the variant that also acts on the wall on the right while in FIND_WALL
DecideLeftHandUsesRight(st, p) ==
  IF st = FIND_WALL /\ ~p.TF /\ ~p.ML /\ p.MR
  THEN [state |-> TURN_CORNER, action |-> TURN_RIGHT]
  ELSE IF p.TF
  THEN [state |-> IF st = FIND_WALL THEN FOLLOW_WALL ELSE TURN_CORNER,
        action |-> TURN_RIGHT]
  ELSE IF st = FOLLOW_WALL
  THEN IF p.ML THEN [state |-> st, action |-> MOVE_FORWARD]
       ELSE [state |-> FIND_WALL, action |-> TURN_LEFT]
  ELSE IF p.ML THEN [state |-> FOLLOW_WALL, action |-> MOVE_FORWARD]
  ELSE [state |-> st,
        action |-> IF st = FIND_WALL THEN MOVE_FORWARD ELSE TURN_RIGHT]

\* _decide_left_hand: the new state and the returned action
DecideLeftHandCornerAhead(st, p) ==
  LET wall_ahead == p.TF
      wall_on_left == p.ML
  IN
  IF st = FOLLOW_WALL
  THEN IF wall_ahead
       THEN [state |-> TURN_CORNER, action |-> TURN_RIGHT]
       ELSE IF wall_on_left = FALSE
       THEN [state |-> FIND_WALL, action |-> TURN_LEFT]
       ELSE [state |-> st, action |-> MOVE_FORWARD]
  ELSE IF st = FIND_WALL
  THEN IF wall_ahead
       THEN [state |-> FOLLOW_WALL, action |-> TURN_RIGHT]
       ELSE IF wall_on_left
       THEN [state |-> FOLLOW_WALL, action |-> MOVE_FORWARD]
       ELSE [state |-> st, action |-> MOVE_FORWARD]
  ELSE IF st = TURN_CORNER
  THEN IF wall_on_left /\ wall_ahead
       THEN [state |-> FOLLOW_WALL, action |-> MOVE_FORWARD]
       ELSE [state |-> st, action |-> TURN_RIGHT]
  ELSE [state |-> st, action |-> MOVE_FORWARD]

DecideLeftHandFindWallRight(st, p) ==
  LET wall_ahead == p.TF
      wall_on_left == p.ML
  IN
  IF st = FOLLOW_WALL
  THEN IF wall_ahead
       THEN [state |-> TURN_CORNER, action |-> TURN_RIGHT]
       ELSE IF wall_on_left = FALSE
       THEN [state |-> FIND_WALL, action |-> TURN_LEFT]
       ELSE [state |-> st, action |-> MOVE_FORWARD]
  ELSE IF st = FIND_WALL
  THEN IF wall_ahead
       THEN [state |-> FOLLOW_WALL, action |-> TURN_RIGHT]
       ELSE IF wall_on_left
       THEN [state |-> FOLLOW_WALL, action |-> MOVE_FORWARD]
       ELSE IF p.MR
       THEN [state |-> TURN_CORNER, action |-> TURN_RIGHT]
       ELSE [state |-> st, action |-> MOVE_FORWARD]
  ELSE IF st = TURN_CORNER
  THEN IF wall_on_left /\ wall_ahead = FALSE
       THEN [state |-> FOLLOW_WALL, action |-> MOVE_FORWARD]
       ELSE [state |-> st, action |-> TURN_RIGHT]
  ELSE [state |-> st, action |-> MOVE_FORWARD]

DecideLeftHand(st, p) ==
  LET wall_ahead == p.TF
      wall_on_left == p.ML
  IN
  IF st = FOLLOW_WALL
  THEN IF wall_ahead
       THEN [state |-> TURN_CORNER, action |-> TURN_RIGHT]
       ELSE IF wall_on_left = FALSE
       THEN [state |-> FIND_WALL, action |-> TURN_LEFT]
       ELSE [state |-> st, action |-> MOVE_FORWARD]
  ELSE IF st = FIND_WALL
  THEN IF wall_ahead
       THEN [state |-> FOLLOW_WALL, action |-> TURN_RIGHT]
       ELSE IF wall_on_left
       THEN [state |-> FOLLOW_WALL, action |-> MOVE_FORWARD]
       ELSE [state |-> st, action |-> MOVE_FORWARD]
  ELSE IF st = TURN_CORNER
  THEN IF wall_on_left /\ wall_ahead = FALSE
       THEN [state |-> FOLLOW_WALL, action |-> MOVE_FORWARD]
       ELSE [state |-> st, action |-> TURN_RIGHT]
  ELSE [state |-> st, action |-> MOVE_FORWARD]

\* what a method call gives back: None, or a value
ReturnNone == [none |-> TRUE, value |-> 0]

Return(v) == [none |-> FALSE, value |-> v]

\* StateMachineAgent.__init__ and ProductionRulesAgent.__init__
AgentInit ==
  /\ state = FIND_WALL
  /\ last_observation = NoObservation
  /\ decision = -1
  /\ agent_op = "init"
  /\ twin = [state |-> FIND_WALL, last_observation |-> NoObservation,
             decision |-> -1]
  /\ rules_agent = [last_observation |-> NoObservation,
                    returned |-> ReturnNone, op |-> "init"]
  /\ turn_corner_run = 0

NoReturn == [status |-> "none", reward |-> 0, terminated |-> FALSE,
             truncated |-> FALSE, reward_collected |-> FALSE,
             success |-> FALSE, rewards_collected |-> 0, total_rewards |-> 0]

\* the objects after construction, before the first reset
Constructed ==
  /\ grid = [c \in Cells |-> "empty"]
  /\ agent_pos = <<-1, -1>>
  /\ agent_dir = -1
  /\ step_count = 0
  /\ rewards_collected = 0
  /\ total_rewards = 0
  /\ op = "init"
  /\ action = -1
  /\ old_pos = <<-1, -1>>
  /\ ret = NoReturn
  /\ calls = 0
  /\ collected = {}
  /\ ended = FALSE
  /\ history = [first |-> FALSE, grid |-> [c \in Cells |-> "empty"],
                total_rewards |-> 0, replayed |-> FALSE]
  /\ AgentInit
  /\ gen_pos = GenIdle

Init ==
  /\ \/ cfg \in Configs /\ cap = StepCap
     \/ cfg \in DeepConfigs /\ cap = DeepStepCap
  /\ Constructed
  /\ maze = NoMaze

(***************************************************************************)
(* reset(): the base class clears the step counter and runs _gen_grid;     *)
(* MazeEnv.reset then places the agent and zeroes rewards_collected.       *)
(***************************************************************************)
ResetAccumulatesRewards ==
  LET gen == GenGrid(cfg) IN
  /\ grid' = gen.grid
  /\ total_rewards' = total_rewards + gen.total_rewards
  /\ agent_pos' = cfg.agent_start_pos
  /\ agent_dir' = cfg.agent_start_dir
  /\ step_count' = 0
  /\ rewards_collected' = 0
  /\ op' = "reset"
  /\ action' = -1
  /\ old_pos' = cfg.agent_start_pos
  /\ ret' = [NoReturn EXCEPT !.status = "ok",
                             !.rewards_collected = 0,
                             !.total_rewards = gen.total_rewards]
  /\ calls' = 0
  /\ collected' = {}
  /\ ended' = FALSE
  /\ history' = IF ~history.first
                THEN [first |-> TRUE, grid |-> gen.grid,
                      total_rewards |-> gen.total_rewards, replayed |-> FALSE]
                ELSE [history EXCEPT !.replayed =
                        @ \/ (cap = DeepStepCap /\ collected # {})]
  /\ UNCHANGED <<cfg, cap>>
  /\ UNCHANGED agent_vars
  /\ UNCHANGED gen_pos

ResetKeepsCollected ==
  LET gen == GenGrid(cfg) IN
  /\ grid' = gen.grid
  /\ total_rewards' = gen.total_rewards
  /\ agent_pos' = cfg.agent_start_pos
  /\ agent_dir' = cfg.agent_start_dir
  /\ step_count' = 0
  /\ op' = "reset"
  /\ action' = -1
  /\ old_pos' = cfg.agent_start_pos
  /\ ret' = [NoReturn EXCEPT !.status = "ok",
                             !.rewards_collected = rewards_collected,
                             !.total_rewards = gen.total_rewards]
  /\ calls' = 0
  /\ collected' = {}
  /\ ended' = FALSE
  /\ history' = IF ~history.first
                THEN [first |-> TRUE, grid |-> gen.grid,
                      total_rewards |-> gen.total_rewards, replayed |-> FALSE]
                ELSE [history EXCEPT !.replayed =
                        @ \/ (cap = DeepStepCap /\ collected # {})]
  /\ UNCHANGED <<cfg, cap, rewards_collected>>
  /\ UNCHANGED agent_vars
  /\ UNCHANGED gen_pos

ResetEnv ==
  LET gen == GenGrid(cfg) IN
  /\ grid' = gen.grid
  /\ total_rewards' = gen.total_rewards
  /\ agent_pos' = cfg.agent_start_pos
  /\ agent_dir' = cfg.agent_start_dir
  /\ step_count' = 0
  /\ rewards_collected' = 0
  /\ op' = "reset"
  /\ action' = -1
  /\ old_pos' = cfg.agent_start_pos
  /\ ret' = [NoReturn EXCEPT !.status = "ok",
                             !.rewards_collected = 0,
                             !.total_rewards = gen.total_rewards]
  /\ calls' = 0
  /\ collected' = {}
  /\ ended' = FALSE
  /\ history' = IF ~history.first
                THEN [first |-> TRUE, grid |-> gen.grid,
                      total_rewards |-> gen.total_rewards, replayed |-> FALSE]
                ELSE [history EXCEPT !.replayed =
                        @ \/ (cap = DeepStepCap /\ collected # {})]
  /\ UNCHANGED <<cfg, cap>>
  /\ UNCHANGED gen_pos

Reset == ResetEnv /\ UNCHANGED agent_vars

(***************************************************************************)
(* step(action), base-class part (super().step): count the step, look at   *)
(* the cell in front, turn or move, and test the step limit.  Reading the  *)
(* cell in front of the agent fails when that cell is outside the grid.    *)
(***************************************************************************)
DirVec(d) == << <<1, 0>>, <<0, 1>>, <<-1, 0>>, <<0, -1>> >>[d + 1]

FrontPos(pos, d) == <<pos[1] + DirVec(d)[1], pos[2] + DirVec(d)[2]>>

TurnLeft(d) == IF d - 1 < 0 THEN d - 1 + 4 ELSE d - 1

TurnRight(d) == (d + 1) % 4

\* the step limit test of the base-class step: step_count >= max_steps
StepLimitExceeded(n, max_steps) == n > max_steps

StepLimitReached(n, max_steps) == n >= max_steps

\* The base class knows the actions 0..6 (left, right, forward, pickup,
\* drop, toggle, done) and rejects any other value after counting the step.
\* Pickup, drop, toggle and done change nothing in this maze: a Coin cannot
\* be picked up, nothing is carried, and walls and coins do not toggle.
KnownAction(a) == a \in 0..6

SuperStepCountsMovesOnly(g, pos, d, sc, max_steps, a) ==
  LET fwd == FrontPos(pos, d)
      blocked == a = MoveForwardAction /\ (~InBounds(fwd) \/ ~CanOverlap(g[fwd]))
      n == IF blocked THEN sc ELSE sc + 1
  IN
  IF ~InBounds(fwd) \/ ~KnownAction(a)
  THEN [raised |-> TRUE, agent_pos |-> pos, agent_dir |-> d,
        step_count |-> n, reward |-> 0, terminated |-> FALSE,
        truncated |-> FALSE]
  ELSE [raised |-> FALSE,
        agent_pos |-> IF a = MoveForwardAction /\ CanOverlap(g[fwd])
                      THEN fwd ELSE pos,
        agent_dir |-> IF a = TurnLeftAction THEN TurnLeft(d)
                      ELSE IF a = TurnRightAction THEN TurnRight(d)
                      ELSE d,
        step_count |-> n,
        reward |-> 0,
        terminated |-> FALSE,
        truncated |-> StepLimitReached(n, max_steps)]

SuperStep(g, pos, d, sc, max_steps, a) ==
  LET fwd == FrontPos(pos, d) IN
  IF ~InBounds(fwd) \/ ~KnownAction(a)
  THEN [raised |-> TRUE, agent_pos |-> pos, agent_dir |-> d,
        step_count |-> sc + 1, reward |-> 0, terminated |-> FALSE,
        truncated |-> FALSE]
  ELSE [raised |-> FALSE,
        agent_pos |-> IF a = MoveForwardAction /\ CanOverlap(g[fwd])
                      THEN fwd ELSE pos,
        agent_dir |-> IF a = TurnLeftAction THEN TurnLeft(d)
                      ELSE IF a = TurnRightAction THEN TurnRight(d)
                      ELSE d,
        step_count |-> sc + 1,
        reward |-> 0,
        terminated |-> FALSE,
        truncated |-> StepLimitReached(sc + 1, max_steps)]

(***************************************************************************)
(* step(action), MazeEnv part: collect the coin under the agent and check  *)
(* whether every reward has been collected.                                *)
(***************************************************************************)
CollectRewardKeepsCoin(g, pos, rc, reward) ==
  IF g[pos] = "coin"
  THEN [grid |-> g, reward |-> 1,
        rewards_collected |-> rc + 1, reward_collected |-> TRUE]
  ELSE [grid |-> g, reward |-> reward,
        rewards_collected |-> rc, reward_collected |-> FALSE]

CollectRewardKeepsReward(g, pos, rc, reward) ==
  IF g[pos] = "coin"
  THEN [grid |-> [g EXCEPT ![pos] = "empty"], reward |-> reward,
        rewards_collected |-> rc + 1, reward_collected |-> TRUE]
  ELSE [grid |-> g, reward |-> reward,
        rewards_collected |-> rc, reward_collected |-> FALSE]

CollectRewardLeavesWall(g, pos, rc, reward) ==
  IF g[pos] = "coin"
  THEN [grid |-> [g EXCEPT ![pos] = "wall"], reward |-> 1,
        rewards_collected |-> rc + 1, reward_collected |-> TRUE]
  ELSE [grid |-> g, reward |-> reward,
        rewards_collected |-> rc, reward_collected |-> FALSE]

CollectReward(g, pos, rc, reward) ==
  IF g[pos] = "coin"
  THEN [grid |-> [g EXCEPT ![pos] = "empty"], reward |-> 1,
        rewards_collected |-> rc + 1, reward_collected |-> TRUE]
  ELSE [grid |-> g, reward |-> reward,
        rewards_collected |-> rc, reward_collected |-> FALSE]

AllCollected(rc, tr) == rc >= tr

StepEnv(a) ==
  /\ op # "init"
  /\ calls < cap
  /\ LET sup == SuperStep(grid, agent_pos, agent_dir, step_count, cfg.max_steps, a)
     IN
     IF sup.raised
     THEN /\ step_count' = sup.step_count
          /\ ret' = [NoReturn EXCEPT !.status = "raised"]
          /\ UNCHANGED <<grid, agent_pos, agent_dir, rewards_collected,
                         collected, ended>>
     ELSE LET col == CollectReward(grid, sup.agent_pos, rewards_collected, sup.reward)
              done == AllCollected(col.rewards_collected, total_rewards)
          IN
          /\ agent_pos' = sup.agent_pos
          /\ agent_dir' = sup.agent_dir
          /\ step_count' = sup.step_count
          /\ grid' = col.grid
          /\ rewards_collected' = col.rewards_collected
          /\ collected' = IF col.reward_collected
                          THEN collected \cup {sup.agent_pos} ELSE collected
          /\ ended' = (ended \/ sup.terminated \/ done \/ sup.truncated)
          /\ ret' = [status |-> "ok",
                     reward |-> col.reward,
                     terminated |-> (sup.terminated \/ done),
                     truncated |-> sup.truncated,
                     reward_collected |-> col.reward_collected,
                     success |-> done,
                     rewards_collected |-> col.rewards_collected,
                     total_rewards |-> total_rewards]
  /\ op' = "step"
  /\ action' = a
  /\ old_pos' = agent_pos
  /\ calls' = calls + 1
  /\ UNCHANGED <<cfg, cap, total_rewards, history>>
  /\ UNCHANGED gen_pos

Step(a) == StepEnv(a) /\ UNCHANGED agent_vars

TurnLeftStep == Step(TurnLeftAction)
TurnRightStep == Step(TurnRightAction)
MoveForwardStep == Step(MoveForwardAction)

Next == Reset \/ TurnLeftStep \/ TurnRightStep \/ MoveForwardStep

Spec == Init /\ [][Next]_vars

(***************************************************************************)
(* The same environment driven with any integer action: 5 is the base      *)
(* class's toggle, 7 a value it does not know.                             *)
(***************************************************************************)
OtherActions == {5, 7}

ActionConfigs ==
  {c \in Configs : /\ c.custom_cells = <<>>
                   /\ c.clear_areas \in {<<>>, <<Rect(0, 1, 1, 1)>>}
                   /\ c.max_steps = 3}

InitActions == Init /\ cfg \in ActionConfigs /\ cap = StepCap

OtherActionStep == \E a \in OtherActions : Step(a)

NextActions == Next \/ OtherActionStep

SpecActions == InitActions /\ [][NextActions]_vars

(***************************************************************************)
(* Generation that raises.  Grid.get and Grid.set assert that their        *)
(* coordinates lie inside the grid, so _gen_grid stops at the first cell   *)
(* outside it that a loop really touches; everything written before that   *)
(* point stays.  A segment position inside a gap is never touched, and a   *)
(* rectangle whose range is empty touches nothing.                         *)
(***************************************************************************)
Min(S) == CHOOSE m \in S : \A n \in S : m <= n

SegCell(config, v) ==
  IF config.type = "horizontal" THEN <<v, config.coord>> ELSE <<config.coord, v>>

\* positions of a segment's loop at which grid.get raises
SegRaisesAt(config) ==
  {v \in config.start..config.end :
     /\ config.type \in {"horizontal", "vertical"}
     /\ ~InGap(config.gaps, v)
     /\ ~InBounds(SegCell(config, v))}

WallsRaiseAt(walls_config) ==
  {k \in 1..Len(walls_config) : SegRaisesAt(walls_config[k]) # {}}

CustomCellsRaiseAt(custom_cells) ==
  {k \in 1..Len(custom_cells) :
     /\ custom_cells[k].type \in {"wall", "empty", "coin"}
     /\ ~InBounds(<<custom_cells[k].x, custom_cells[k].y>>)}

\* the cells of clear_rectangle's loops, and their order (x outer, y inner)
RectCells(area) == (area.x1..area.x2) \X (area.y1..area.y2)

RectBefore(p, q) == p[1] < q[1] \/ (p[1] = q[1] /\ p[2] < q[2])

RectRaisesAt(area) == {p \in RectCells(area) : ~InBounds(p)}

ClearAreasRaiseAt(clear_areas) ==
  {k \in 1..Len(clear_areas) : RectRaisesAt(clear_areas[k]) # {}}

\* clear_rectangle up to the cell at which grid.get raises
ClearRectangleUpTo(s, area, bad) ==
  LET done == {c \in Cells : InRect(c, area) /\ RectBefore(c, bad)} IN
  [grid |-> [c \in Cells |-> IF c \in done THEN "empty" ELSE s.grid[c]],
   total_rewards |-> s.total_rewards
       - Cardinality({c \in done : s.grid[c] = "coin"})]

GenRaises(c) ==
  \/ WallsRaiseAt(c.walls_config) # {}
  \/ CustomCellsRaiseAt(c.custom_cells) # {}
  \/ ClearAreasRaiseAt(c.clear_areas) # {}

\* what _gen_grid leaves behind when it raises: the grid, total_rewards
\* (tr0 is its value before the call) and whether the agent was placed
GenGridRaised(c, tr0) ==
  IF WallsRaiseAt(c.walls_config) # {}
  THEN LET k   == Min(WallsRaiseAt(c.walls_config))
           seg == c.walls_config[k]
           cut == [seg EXCEPT !.end = Min(SegRaisesAt(seg)) - 1]
       IN [grid |-> AddWalls(OuterWalls,
                             Append(SubSeq(c.walls_config, 1, k - 1), cut)),
           total_rewards |-> tr0,
           placed |-> FALSE]
  ELSE LET walls  == AddInternalWalls(OuterWalls, c.walls_config)
           placed == PlaceRewards(walls, c.reward_type)
       IN IF CustomCellsRaiseAt(c.custom_cells) # {}
          THEN LET k == Min(CustomCellsRaiseAt(c.custom_cells))
                   s == ApplyCustomCells(placed, SubSeq(c.custom_cells, 1, k - 1))
               IN [grid |-> s.grid, total_rewards |-> s.total_rewards,
                   placed |-> TRUE]
          ELSE LET custom == ApplyCustomCells(placed, c.custom_cells)
                   k      == Min(ClearAreasRaiseAt(c.clear_areas))
                   pre    == ApplyClearAreas(custom, SubSeq(c.clear_areas, 1, k - 1))
                   area   == c.clear_areas[k]
                   bad    == CHOOSE p \in RectRaisesAt(area) :
                               \A q \in RectRaisesAt(area) : p = q \/ RectBefore(p, q)
                   s      == ClearRectangleUpTo(pre, area, bad)
               IN [grid |-> s.grid, total_rewards |-> s.total_rewards,
                   placed |-> TRUE]

\* reset() when _gen_grid raises: the base class has already unplaced the
\* agent; the step counter and rewards_collected are not reached
ResetRaises ==
  /\ GenRaises(cfg)
  /\ LET gen == GenGridRaised(cfg, total_rewards) IN
     /\ grid' = gen.grid
     /\ total_rewards' = gen.total_rewards
     /\ agent_pos' = IF gen.placed THEN cfg.agent_start_pos ELSE <<-1, -1>>
     /\ agent_dir' = IF gen.placed THEN cfg.agent_start_dir ELSE -1
  /\ op' = "reset"
  /\ action' = -1
  /\ ret' = [NoReturn EXCEPT !.status = "raised"]
  /\ UNCHANGED <<cfg, cap, step_count, rewards_collected, old_pos, calls,
                 collected, ended, history>>
  /\ UNCHANGED agent_vars
  /\ UNCHANGED gen_pos

ResetReturns == ~GenRaises(cfg) /\ Reset

(***************************************************************************)
(* Configurations with coordinates outside the grid or inverted            *)
(* rectangles: a segment running off the right edge, one starting above    *)
(* the grid, one whose outside part lies in a gap; overrides outside the   *)
(* grid, alone or after a valid one; rectangles running off the edge,      *)
(* inverted inside the grid, and inverted with a corner outside it.        *)
(***************************************************************************)
SegOffEdge == Seg("horizontal", 2, 2, Size, <<>>)
SegAbove == Seg("vertical", 2, -1, 1, <<>>)
SegOutsideInGap == Seg("horizontal", 2, 2, Size, <<(<<Size, Size>>)>>)

GenWallsConfigs ==
  {<<SegTop>>, <<SegTop, SegOffEdge>>, <<SegAbove>>, <<SegOutsideInGap>>}

GenCustomCellsLists ==
  { <<>>,
    <<Cell(2, 2, "wall")>>,
    <<Cell(2, 2, "coin"), Cell(Size, 1, "wall")>>,
    <<Cell(1, -1, "empty")>> }

GenClearAreasLists ==
  { <<>>,
    <<Rect(Size - 2, 1, Size, 2)>>,
    <<Rect(3, 1, 1, 1)>>,
    <<Rect(1, 2, 1, 1)>>,
    <<Rect(Size + 1, 1, 1, 1)>> }

GenConfigs ==
  {c \in {[reward_type |-> rt, walls_config |-> wc, custom_cells |-> cc,
           clear_areas |-> ca, agent_start_pos |-> <<1, 1>>,
           agent_start_dir |-> 3, max_steps |-> 3] :
            rt \in RewardTypes, wc \in GenWallsConfigs,
            cc \in GenCustomCellsLists, ca \in GenClearAreasLists} :
     GenRaises(c) \/ StartCellFree(c)}

InitGen ==
  /\ cfg \in GenConfigs
  /\ cap = StepCap
  /\ grid = [c \in Cells |-> "empty"]
  /\ agent_pos = <<-1, -1>>
  /\ agent_dir = -1
  /\ step_count = 0
  /\ rewards_collected = 0
  /\ total_rewards = 0
  /\ op = "init"
  /\ action = -1
  /\ old_pos = <<-1, -1>>
  /\ ret = NoReturn
  /\ calls = 0
  /\ collected = {}
  /\ ended = FALSE
  /\ history = [first |-> FALSE, grid |-> [c \in Cells |-> "empty"],
                total_rewards |-> 0, replayed |-> FALSE]
  /\ AgentInit
  /\ gen_pos = GenIdle
  /\ maze = NoMaze

NextGen == ResetRaises \/ ResetReturns

SpecGen == InitGen /\ [][NextGen]_vars

(***************************************************************************)
(* The agent's operations.  Observations handed to perceive range over     *)
(* every kind in the three cells the agent reads, with the five other      *)
(* cells all empty or all wall.                                            *)
(***************************************************************************)
Image(tf, ml, mr, rest) ==
  [v \in ImageCells |->
     IF v = <<1, 1>> THEN ObjectToIdx("agent")
     ELSE IF v = <<1, 0>> THEN ObjectToIdx(tf)
     ELSE IF v = <<0, 1>> THEN ObjectToIdx(ml)
     ELSE IF v = <<2, 1>> THEN ObjectToIdx(mr)
     ELSE ObjectToIdx(rest)]

Observations ==
  {Observation(Image(tf, ml, mr, rest)) :
     tf \in Kinds, ml \in Kinds, mr \in Kinds, rest \in {"empty", "wall"}}

Perceive(observation) ==
  /\ last_observation' = observation
  /\ agent_op' = "perceive"
  /\ UNCHANGED <<state, decision>>
  /\ UNCHANGED env_vars
  /\ UNCHANGED <<turn_corner_run, maze>>
  /\ UNCHANGED rules_agent
  /\ UNCHANGED twin

DecideOncePerObservation ==
  /\ IF last_observation.none
     THEN /\ decision' = MOVE_FORWARD
          /\ UNCHANGED state
     ELSE IF agent_op = "decide"
     THEN /\ decision' = MOVE_FORWARD
          /\ UNCHANGED state
     ELSE LET d == DecideLeftHand(state, Perception(last_observation)) IN
          /\ state' = d.state
          /\ decision' = d.action
  /\ agent_op' = "decide"
  /\ UNCHANGED last_observation
  /\ UNCHANGED env_vars
  /\ UNCHANGED <<turn_corner_run, maze>>
  /\ UNCHANGED rules_agent
  /\ UNCHANGED twin

Decide ==
  /\ IF last_observation.none
     THEN /\ decision' = MOVE_FORWARD
          /\ UNCHANGED state
     ELSE LET d == DecideLeftHand(state, Perception(last_observation)) IN
          /\ state' = d.state
          /\ decision' = d.action
  /\ agent_op' = "decide"
  /\ UNCHANGED last_observation
  /\ UNCHANGED env_vars
  /\ UNCHANGED <<turn_corner_run, maze>>
  /\ UNCHANGED rules_agent
  /\ UNCHANGED twin

AgentResetKeepsState ==
  /\ last_observation' = NoObservation
  /\ agent_op' = "reset"
  /\ UNCHANGED <<state, decision>>
  /\ UNCHANGED env_vars
  /\ UNCHANGED <<turn_corner_run, maze>>
  /\ UNCHANGED rules_agent
  /\ UNCHANGED twin

AgentReset ==
  /\ state' = FIND_WALL
  /\ last_observation' = NoObservation
  /\ agent_op' = "reset"
  /\ UNCHANGED decision
  /\ UNCHANGED env_vars
  /\ UNCHANGED <<turn_corner_run, maze>>
  /\ UNCHANGED rules_agent
  /\ UNCHANGED twin

PerceiveAny == \E observation \in Observations : Perceive(observation)

AgentConfigs ==
  {c \in DeepConfigs : c.reward_type = "outer" /\ c.agent_start_dir = 3}

InitAgent == Init /\ cfg \in AgentConfigs /\ cap = DeepStepCap

NextAgent == PerceiveAny \/ Decide \/ AgentReset

SpecAgent == InitAgent /\ [][NextAgent]_vars

(***************************************************************************)
(* The agent called with one observation per episode: perceive only right  *)
(* after __init__ or reset, so that every later decide works on the cached *)
(* observation.                                                            *)
(***************************************************************************)
PerceiveOnce == agent_op \in {"init", "reset"} /\ PerceiveAny

NextCached == PerceiveOnce \/ Decide \/ AgentReset

SpecCached == InitAgent /\ [][NextCached]_vars

(***************************************************************************)
(* Two StateMachineAgents run side by side: both receive the same calls,   *)
(* and the observations handed to the second agree with those of the       *)
(* first on the TF and ML flags while differing in the MR cell and in the  *)
(* five cells the agent does not read.                                     *)
(***************************************************************************)
IsWall(observation, v) == observation.image[v] = ObjectToIdx("wall")

Variants(observation) ==
  {o \in Observations :
     /\ IsWall(o, <<1, 0>>) = IsWall(observation, <<1, 0>>)
     /\ IsWall(o, <<0, 1>>) = IsWall(observation, <<0, 1>>)
     /\ o.image[<<2, 1>>] # observation.image[<<2, 1>>]
     /\ o.image[<<0, 0>>] # observation.image[<<0, 0>>]}

\* decide(): the new state and the returned action
DecideOf(st, observation) ==
  IF observation.none
  THEN [state |-> st, action |-> MOVE_FORWARD]
  ELSE DecideLeftHand(st, Perception(observation))

PerceiveTwin ==
  \E o1 \in Observations : \E o2 \in Variants(o1) :
     /\ last_observation' = o1
     /\ twin' = [twin EXCEPT !.last_observation = o2]
     /\ agent_op' = "perceive"
     /\ UNCHANGED <<state, decision>>
     /\ UNCHANGED env_vars
     /\ UNCHANGED <<turn_corner_run, maze>>
     /\ UNCHANGED rules_agent

DecideTwin ==
  LET d1 == DecideOf(state, last_observation)
      d2 == DecideOf(twin.state, twin.last_observation)
  IN
  /\ state' = d1.state
  /\ decision' = d1.action
  /\ twin' = [twin EXCEPT !.state = d2.state, !.decision = d2.action]
  /\ agent_op' = "decide"
  /\ UNCHANGED last_observation
  /\ UNCHANGED env_vars
  /\ UNCHANGED <<turn_corner_run, maze>>
  /\ UNCHANGED rules_agent

ResetTwin ==
  /\ state' = FIND_WALL
  /\ last_observation' = NoObservation
  /\ twin' = [twin EXCEPT !.state = FIND_WALL,
                          !.last_observation = NoObservation]
  /\ agent_op' = "reset"
  /\ UNCHANGED decision
  /\ UNCHANGED env_vars
  /\ UNCHANGED <<turn_corner_run, maze>>
  /\ UNCHANGED rules_agent

NextTwin == PerceiveTwin \/ DecideTwin \/ ResetTwin

SpecTwin == InitAgent /\ [][NextTwin]_vars

(***************************************************************************)
(* ProductionRulesAgent.  perceive computes eight wall flags; decide hands *)
(* them to _decide_left_hand, whose body is a lone pass statement.         *)
(***************************************************************************)
RulesPerception(observation) ==
  [TL |-> observation.image[<<0, 0>>] = ObjectToIdx("wall"),
   TF |-> observation.image[<<1, 0>>] = ObjectToIdx("wall"),
   TR |-> observation.image[<<2, 0>>] = ObjectToIdx("wall"),
   ML |-> observation.image[<<0, 1>>] = ObjectToIdx("wall"),
   MR |-> observation.image[<<2, 1>>] = ObjectToIdx("wall"),
   BL |-> observation.image[<<0, 2>>] = ObjectToIdx("wall"),
   BF |-> observation.image[<<1, 2>>] = ObjectToIdx("wall"),
   BR |-> observation.image[<<2, 2>>] = ObjectToIdx("wall")]

\* _decide_left_hand of the ProductionRulesAgent
RulesDecideLeftHand(p) == ReturnNone

\* observations with every combination of wall and empty in the eight cells
\* around the agent, and some with a coin ahead
RulesObservations ==
  {Observation([v \in ImageCells |->
                  IF v = <<1, 1>> THEN ObjectToIdx("agent")
                  ELSE IF v \in walls THEN ObjectToIdx("wall")
                  ELSE IF v = <<1, 0>> /\ coin THEN ObjectToIdx("coin")
                  ELSE ObjectToIdx("empty")]) :
     walls \in SUBSET (ImageCells \ {<<1, 1>>}), coin \in BOOLEAN}

RulesPerceive ==
  /\ \E observation \in RulesObservations :
        rules_agent' = [rules_agent EXCEPT !.last_observation = observation,
                                           !.op = "perceive"]
  /\ UNCHANGED <<state, last_observation, decision, agent_op, twin>>
  /\ UNCHANGED env_vars
  /\ UNCHANGED <<turn_corner_run, maze>>

RulesDecide ==
  /\ rules_agent' =
       [rules_agent EXCEPT
          !.returned = IF rules_agent.last_observation.none
                       THEN Return(MOVE_FORWARD)
                       ELSE RulesDecideLeftHand(
                              RulesPerception(rules_agent.last_observation)),
          !.op = "decide"]
  /\ UNCHANGED <<state, last_observation, decision, agent_op, twin>>
  /\ UNCHANGED env_vars
  /\ UNCHANGED <<turn_corner_run, maze>>

RulesReset ==
  /\ rules_agent' = [rules_agent EXCEPT !.last_observation = NoObservation,
                                        !.op = "reset"]
  /\ UNCHANGED <<state, last_observation, decision, agent_op, twin>>
  /\ UNCHANGED env_vars
  /\ UNCHANGED <<turn_corner_run, maze>>

NextRules == RulesPerceive \/ RulesDecide \/ RulesReset

SpecRules == InitAgent /\ [][NextRules]_vars

(***************************************************************************)
(* reset() followed statement by statement through _gen_grid: one action   *)
(* per wall segment, one for the agent and reward placement, one per cell  *)
(* override, one per clear rectangle, and one for the rest of reset().     *)
(* The configurations add, to the segments used elsewhere, a segment with  *)
(* a two-cell gap, one lying inside another, single-cell segments on the   *)
(* band corner and on the centre cell, and overrides of every kind on      *)
(* coins, walls and empty cells.                                           *)
(***************************************************************************)
SegGap == Seg("horizontal", 2, 1, Size - 2, <<(<<2, Size - 3>>)>>)
SegCorner == Seg("horizontal", 1, 1, 1, <<>>)
SegCentre == Seg("vertical", 2, 2, 2, <<>>)
SegInside == Seg("vertical", 2, 2, Size - 2, <<>>)

BuildWallsConfigs ==
  WallsConfigs \cup {<<SegGap>>, <<SegCorner>>, <<SegCentre, SegV>>,
                     <<SegV, SegInside>>, <<SegInside, SegV>>}

BuildCustomCellsLists ==
  CustomCellsLists \cup
    { <<Cell(2, 2, "wall"), Cell(2, 2, "coin")>>,
      <<Cell(1, 1, "wall"), Cell(1, 1, "wall")>>,
      <<Cell(0, 0, "wall"), Cell(0, 0, "coin"), Cell(0, 0, "empty")>>,
      <<Cell(1, 1, "empty"), Cell(1, 1, "coin"), Cell(2, 2, "empty")>> }

\* adds two overlapping rectangles in one list, and a one-cell rectangle
BuildClearAreasLists ==
  ClearAreasLists \cup
    { <<Rect(1, 1, 2, 2), Rect(2, 2, Size - 2, Size - 2)>>,
      <<Rect(2, 2, 2, 2)>> }

BuildConfigs ==
  {[reward_type |-> rt, walls_config |-> wc, custom_cells |-> cc,
    clear_areas |-> ca, agent_start_pos |-> <<1, 1>>,
    agent_start_dir |-> 3, max_steps |-> 3] :
     rt \in RewardTypes, wc \in BuildWallsConfigs,
     cc \in BuildCustomCellsLists, ca \in BuildClearAreasLists}

\* where _gen_grid continues after the statement at position pos
GenAdvance(c, pos) ==
  LET cells == IF Len(c.custom_cells) > 0 THEN [phase |-> "cells", k |-> 1]
               ELSE IF Len(c.clear_areas) > 0 THEN [phase |-> "clear", k |-> 1]
               ELSE [phase |-> "finish", k |-> 1]
      clear == IF Len(c.clear_areas) > 0 THEN [phase |-> "clear", k |-> 1]
               ELSE [phase |-> "finish", k |-> 1]
  IN
  IF pos.phase = "walls"
  THEN IF pos.k < Len(c.walls_config) THEN [pos EXCEPT !.k = @ + 1]
       ELSE [phase |-> "rewards", k |-> 1]
  ELSE IF pos.phase = "rewards" THEN cells
  ELSE IF pos.phase = "cells"
  THEN IF pos.k < Len(c.custom_cells) THEN [pos EXCEPT !.k = @ + 1] ELSE clear
  ELSE IF pos.k < Len(c.clear_areas) THEN [pos EXCEPT !.k = @ + 1]
  ELSE [phase |-> "finish", k |-> 1]

\* reset() up to the outer boundary of _gen_grid
GenBegin ==
  /\ gen_pos = GenIdle
  /\ op \in {"init", "reset"}
  /\ grid' = OuterWalls
  /\ agent_pos' = <<-1, -1>>
  /\ agent_dir' = -1
  /\ op' = "gen"
  /\ gen_pos' = [phase |-> "walls", k |-> 1]
  /\ UNCHANGED <<cfg, cap, step_count, rewards_collected, total_rewards,
                 action, old_pos, ret, calls, collected, ended, history>>
  /\ UNCHANGED agent_vars

\* one iteration of _add_internal_walls' loop
GenWall ==
  /\ gen_pos.phase = "walls"
  /\ grid' = AddWallFromConfig(grid, cfg.walls_config[gen_pos.k])
  /\ gen_pos' = GenAdvance(cfg, gen_pos)
  /\ UNCHANGED <<cfg, cap, agent_pos, agent_dir, step_count, rewards_collected,
                 total_rewards, op, action, old_pos, ret, calls, collected,
                 ended, history>>
  /\ UNCHANGED agent_vars

\* the agent is placed, then _place_rewards
GenPlaceRewards ==
  /\ gen_pos.phase = "rewards"
  /\ LET placed == PlaceRewards(grid, cfg.reward_type) IN
     /\ grid' = placed.grid
     /\ total_rewards' = placed.total_rewards
  /\ agent_pos' = cfg.agent_start_pos
  /\ agent_dir' = cfg.agent_start_dir
  /\ gen_pos' = GenAdvance(cfg, gen_pos)
  /\ UNCHANGED <<cfg, cap, step_count, rewards_collected, op, action, old_pos,
                 ret, calls, collected, ended, history>>
  /\ UNCHANGED agent_vars

\* one iteration of _apply_custom_cells' loop
GenCustomCell ==
  /\ gen_pos.phase = "cells"
  /\ LET s == ApplyCustomCell([grid |-> grid, total_rewards |-> total_rewards],
                              cfg.custom_cells[gen_pos.k]) IN
     /\ grid' = s.grid
     /\ total_rewards' = s.total_rewards
  /\ gen_pos' = GenAdvance(cfg, gen_pos)
  /\ UNCHANGED <<cfg, cap, agent_pos, agent_dir, step_count, rewards_collected,
                 op, action, old_pos, ret, calls, collected, ended, history>>
  /\ UNCHANGED agent_vars

\* one iteration of _apply_clear_areas' loop
GenClearArea ==
  /\ gen_pos.phase = "clear"
  /\ LET s == ClearRectangle([grid |-> grid, total_rewards |-> total_rewards],
                             cfg.clear_areas[gen_pos.k]) IN
     /\ grid' = s.grid
     /\ total_rewards' = s.total_rewards
  /\ gen_pos' = GenAdvance(cfg, gen_pos)
  /\ UNCHANGED <<cfg, cap, agent_pos, agent_dir, step_count, rewards_collected,
                 op, action, old_pos, ret, calls, collected, ended, history>>
  /\ UNCHANGED agent_vars

\* the rest of reset() after _gen_grid has returned
GenFinish ==
  /\ gen_pos.phase = "finish"
  /\ CanOverlap(grid[cfg.agent_start_pos])
  /\ agent_pos' = cfg.agent_start_pos
  /\ agent_dir' = cfg.agent_start_dir
  /\ step_count' = 0
  /\ rewards_collected' = 0
  /\ op' = "reset"
  /\ action' = -1
  /\ old_pos' = cfg.agent_start_pos
  /\ ret' = [NoReturn EXCEPT !.status = "ok",
                             !.rewards_collected = 0,
                             !.total_rewards = total_rewards]
  /\ calls' = 0
  /\ collected' = {}
  /\ ended' = FALSE
  /\ gen_pos' = GenIdle
  /\ UNCHANGED <<cfg, cap, grid, total_rewards, history>>
  /\ UNCHANGED agent_vars

InitBuild ==
  /\ cfg \in BuildConfigs
  /\ cap = StepCap
  /\ grid = [c \in Cells |-> "empty"]
  /\ agent_pos = <<-1, -1>>
  /\ agent_dir = -1
  /\ step_count = 0
  /\ rewards_collected = 0
  /\ total_rewards = 0
  /\ op = "init"
  /\ action = -1
  /\ old_pos = <<-1, -1>>
  /\ ret = NoReturn
  /\ calls = 0
  /\ collected = {}
  /\ ended = FALSE
  /\ history = [first |-> FALSE, grid |-> [c \in Cells |-> "empty"],
                total_rewards |-> 0, replayed |-> FALSE]
  /\ AgentInit
  /\ gen_pos = GenIdle
  /\ maze = NoMaze

NextBuild ==
  \/ GenBegin \/ GenWall \/ GenPlaceRewards \/ GenCustomCell \/ GenClearArea
  \/ GenFinish

SpecBuild == InitBuild /\ [][NextBuild]_vars

\* the statement-by-statement generation ends in the grid and total_rewards
\* that Reset assigns at once
BuildAgreesWithReset ==
  (op = "reset" /\ gen_pos = GenIdle)
    => (grid = GenGrid(cfg).grid /\ total_rewards = GenGrid(cfg).total_rewards)

(***************************************************************************)
(* gen_obs_grid: the agent-centred, direction-normalised window.  View     *)
(* cell <<view_x, view_y>> shows the world cell rel_forward cells ahead    *)
(* and rel_right cells to the right of the agent; a cell outside the grid  *)
(* shows as a wall and the agent's own cell is left empty.                 *)
(***************************************************************************)
ViewSizes == {3, 5}

ViewCells(agent_view_size) ==
  (0..(agent_view_size - 1)) \X (0..(agent_view_size - 1))

\* gen_obs_grid's own table of forward vectors (dir_vec)
ObsDirVecUpDownSwapped(d) == << <<1, 0>>, <<0, -1>>, <<-1, 0>>, <<0, 1>> >>[d + 1]

ObsDirVec(d) == << <<1, 0>>, <<0, 1>>, <<-1, 0>>, <<0, -1>> >>[d + 1]

RightVecMirrored(d) == << <<0, -1>>, <<1, 0>>, <<0, 1>>, <<-1, 0>> >>[d + 1]

RightVec(d) == << <<0, 1>>, <<-1, 0>>, <<0, -1>>, <<1, 0>> >>[d + 1]

WorldPos(pos, d, agent_view_size, v) ==
  LET offset == agent_view_size \div 2
      rel_right == v[1] - offset
      rel_forward == offset - v[2]
  IN <<pos[1] + rel_forward * ObsDirVec(d)[1] + rel_right * RightVec(d)[1],
       pos[2] + rel_forward * ObsDirVec(d)[2] + rel_right * RightVec(d)[2]>>

GenObsGrid(g, pos, d, agent_view_size) ==
  [v \in ViewCells(agent_view_size) |->
     LET w == WorldPos(pos, d, agent_view_size, v) IN
     IF InBounds(w)
     THEN IF w # pos THEN g[w] ELSE "empty"
     ELSE "wall"]

\* gen_obs: the encoded image of the default 3 x 3 window, with the agent
\* written over the centre cell
GenObs(g, pos, d) ==
  Observation([v \in ImageCells |->
                 IF v = <<1, 1>> THEN ObjectToIdx("agent")
                 ELSE ObjectToIdx(GenObsGrid(g, pos, d, 3)[v])])

(***************************************************************************)
(* An episode run: the environment and a StateMachineAgent in closed loop, *)
(* as record_episode drives them.  The observation handed to perceive is   *)
(* the one the last reset or step returned, which gen_obs computed for the *)
(* agent's present position and direction; an exception raised by step     *)
(* ends the run.                                                           *)
(***************************************************************************)
LoopSteps == 2 * DeepStepCap

LoopConfigs ==
  {c \in [reward_type : RewardTypes, walls_config : WallsConfigs,
           custom_cells : CustomCellsLists, clear_areas : ClearAreasLists,
           agent_start_pos : (1..(width - 2)) \X (1..(height - 2)),
           agent_start_dir : 0..3, max_steps : {LoopSteps}] :
     StartCellFree(c)}

InitLoop == cfg \in LoopConfigs /\ cap = LoopSteps /\ Constructed /\ maze = NoMaze

\* obs, info = self.env.reset(); self.agent.reset()
RecordEpisodeBegin ==
  /\ op = "init"
  /\ ResetEnv
  /\ state' = FIND_WALL
  /\ last_observation' = NoObservation
  /\ agent_op' = "reset"
  /\ turn_corner_run' = 0
  /\ UNCHANGED <<decision, twin, rules_agent, maze>>

\* one pass of the while loop: perceive(obs), decide(), env.step(action)
RecordEpisodeStep ==
  /\ ~ended
  /\ ret.status = "ok"
  /\ LET obs == GenObs(grid, agent_pos, agent_dir)
         d == DecideLeftHand(state, Perception(obs))
     IN /\ last_observation' = obs
        /\ state' = d.state
        /\ decision' = d.action
        /\ turn_corner_run' = IF d.state = TURN_CORNER
                               THEN turn_corner_run + 1 ELSE 0
        /\ StepEnv(d.action)
  /\ agent_op' = "decide"
  /\ UNCHANGED <<twin, rules_agent, maze>>

NextLoop == RecordEpisodeBegin \/ RecordEpisodeStep

SpecLoop == InitLoop /\ [][NextLoop]_vars

(***************************************************************************)
(* The default wall pattern, statement by statement, for MazeEnv(size=s)   *)
(* built without a wall-segment list: _gen_grid's outer boundary, then the *)
(* loops of _add_default_internal_walls, one pass per step.  The rest of   *)
(* _gen_grid writes no Wall and clears none (coins go to empty cells, and  *)
(* there are no cell overrides or clear rectangles), so the walls at phase *)
(* "done" are the walls after generation.                                  *)
(***************************************************************************)
DefaultSize == 15

MazeSizes == (DefaultSize - 2)..(DefaultSize + 1)

MazeCells(s) == (0..(s - 1)) \X (0..(s - 1))

DefaultConfig ==
  [reward_type |-> "outer", walls_config |-> <<>>, custom_cells |-> <<>>,
   clear_areas |-> <<>>, agent_start_pos |-> <<2, 2>>, agent_start_dir |-> 3,
   max_steps |-> 500]

NewMaze(s) ==
  [size |-> s, phase |-> "new", k |-> 0, grid |-> [c \in MazeCells(s) |-> "empty"]]

\* self.grid.set(i, j, v); Grid.set asserts that the cell is in the grid
MazeSet(g, c, v) == [d \in DOMAIN g |-> IF d = c THEN v ELSE g[d]]

\* the loop variable after one pass of range(first, last + 1), or the next loop
MazeAdvance(phase, k, last, next_phase, next_k) ==
  IF k < last THEN [phase |-> phase, k |-> k + 1]
  ELSE [phase |-> next_phase, k |-> next_k]

DefaultGapRows == {6, 7, 8}

DefaultGapCols(w) == {6, 7, 8, w - 7, w - 8, w - 9}

InitDefault ==
  /\ cfg = DefaultConfig
  /\ cap = StepCap
  /\ Constructed
  /\ maze \in {NewMaze(s) : s \in MazeSizes}

\* Grid(width, height) and the outer boundary
DefaultOuterBoundary ==
  /\ maze.phase = "new"
  /\ maze' = [maze EXCEPT
        !.grid = [c \in MazeCells(maze.size) |->
                    IF c[2] = 0 \/ c[2] = maze.size - 1
                       \/ c[1] = 0 \/ c[1] = maze.size - 1
                    THEN "wall" ELSE "empty"],
        !.phase = "left", !.k = 3]
  /\ UNCHANGED env_vars
  /\ UNCHANGED <<state, last_observation, decision, agent_op, twin, rules_agent,
                 turn_corner_run>>

\* for j in range(3, height - 3): if j not in [6, 7, 8]: set(5, j, Wall())
\* and the same loop at x = width - 6
DefaultVerticalWall(phase, x, next_phase) ==
  /\ maze.phase = phase
  /\ LET j == maze.k
         nxt == MazeAdvance(phase, j, maze.size - 4, next_phase, 3)
     IN maze' = [maze EXCEPT
          !.grid = IF j \notin DefaultGapRows THEN MazeSet(@, <<x, j>>, "wall") ELSE @,
          !.phase = nxt.phase, !.k = nxt.k]
  /\ UNCHANGED env_vars
  /\ UNCHANGED <<state, last_observation, decision, agent_op, twin, rules_agent,
                 turn_corner_run>>

DefaultLeftWall == DefaultVerticalWall("left", 5, "right")

DefaultRightWall == DefaultVerticalWall("right", maze.size - 6, "horizontal")

\* for i in range(3, width - 3): if i not in [...]: set(i, height // 2, Wall())
DefaultHorizontalWall ==
  /\ maze.phase = "horizontal"
  /\ LET i == maze.k
         nxt == MazeAdvance("horizontal", i, maze.size - 4, "room_rows", 0)
     IN maze' = [maze EXCEPT
          !.grid = IF i \notin DefaultGapCols(maze.size)
                   THEN MazeSet(@, <<i, maze.size \div 2>>, "wall") ELSE @,
          !.phase = nxt.phase, !.k = nxt.k]
  /\ UNCHANGED env_vars
  /\ UNCHANGED <<state, last_observation, decision, agent_op, twin, rules_agent,
                 turn_corner_run>>

\* for i in range(room_size): the top and the bottom row of the room
DefaultRoomRows ==
  /\ maze.phase = "room_rows"
  /\ LET i == maze.k
         rx == maze.size \div 2
         ry == maze.size \div 4
         nxt == MazeAdvance("room_rows", i, RoomSize - 1, "room_columns", 0)
     IN maze' = [maze EXCEPT
          !.grid = MazeSet(MazeSet(@, <<rx + i, ry>>, "wall"),
                           <<rx + i, ry + RoomSize - 1>>, "wall"),
          !.phase = nxt.phase, !.k = nxt.k]
  /\ UNCHANGED env_vars
  /\ UNCHANGED <<state, last_observation, decision, agent_op, twin, rules_agent,
                 turn_corner_run>>

\* for j in range(room_size): the left and the right column of the room
DefaultRoomColumns ==
  /\ maze.phase = "room_columns"
  /\ LET j == maze.k
         rx == maze.size \div 2
         ry == maze.size \div 4
         nxt == MazeAdvance("room_columns", j, RoomSize - 1, "entrance", 0)
     IN maze' = [maze EXCEPT
          !.grid = MazeSet(MazeSet(@, <<rx, ry + j>>, "wall"),
                           <<rx + RoomSize - 1, ry + j>>, "wall"),
          !.phase = nxt.phase, !.k = nxt.k]
  /\ UNCHANGED env_vars
  /\ UNCHANGED <<state, last_observation, decision, agent_op, twin, rules_agent,
                 turn_corner_run>>

\* set(room_x + 1, room_y, None); set(room_x + 2, room_y, None)
DefaultRoomEntrance ==
  /\ maze.phase = "entrance"
  /\ LET rx == maze.size \div 2
         ry == maze.size \div 4
     IN maze' = [maze EXCEPT
          !.grid = MazeSet(MazeSet(@, <<rx + 1, ry>>, "empty"),
                           <<rx + 2, ry>>, "empty"),
          !.phase = "done"]
  /\ UNCHANGED env_vars
  /\ UNCHANGED <<state, last_observation, decision, agent_op, twin, rules_agent,
                 turn_corner_run>>

NextDefault ==
  \/ DefaultOuterBoundary \/ DefaultLeftWall \/ DefaultRightWall
  \/ DefaultHorizontalWall \/ DefaultRoomRows \/ DefaultRoomColumns
  \/ DefaultRoomEntrance

SpecDefault == InitDefault /\ [][NextDefault]_vars

\* the loops write the cells the pattern names, and every write is in the grid
DefaultBuildAgrees ==
  maze.phase = "done" =>
    /\ DefaultWallCellsOf(maze.size, maze.size) \subseteq MazeCells(maze.size)
    /\ \A c \in MazeCells(maze.size) :
         maze.grid[c] = "wall" <=>
           /\ c \notin DefaultEntranceOf(maze.size, maze.size)
           /\ \/ c \in DefaultWallCellsOf(maze.size, maze.size)
              \/ c[1] \in {0, maze.size - 1} \/ c[2] \in {0, maze.size - 1}

(***************************************************************************)
(* Properties.                                                             *)
(***************************************************************************)
IsStep == calls' = calls + 1          \* the transition is a step call
Returned == ret'.status = "ok"        \* ... that returned normally
Front == FrontPos(agent_pos, agent_dir)
Border == {c \in Cells : c[1] = 0 \/ c[1] = width - 1 \/ c[2] = 0 \/ c[2] = height - 1}

\* C1: right after every reset, total_rewards is the number of coin cells
\* in the grid.
C1_TotalRewardsIsCoinCount ==
  op = "reset" => total_rewards = CountCoins(grid)

\* C2: after generation every cell of the four border rows and columns is a
\* wall.
C2_BorderIsWall ==
  op = "reset" => \A c \in Border : grid[c] = "wall"

\* C3: after reset and any sequence of steps the agent is inside the grid
\* and the cell it stands on is not a wall.
C3_AgentNeverInWall ==
  op # "init" => InBounds(agent_pos) /\ grid[agent_pos] # "wall"

C3_Witness ==
  /\ op = "step" /\ action = MoveForwardAction /\ ret.status = "ok"
  /\ agent_pos = old_pos
  /\ grid[Front] = "wall"

\* C4: every step call adds exactly one to the step counter, so after reset
\* and n step calls the counter is n.
C4_StepCounterCountsCalls ==
  step_count = calls

C4_Witness ==
  /\ op = "step" /\ action = MoveForwardAction /\ ret.status = "ok"
  /\ agent_pos = old_pos
  /\ calls = 2

\* C5: MoveForward with a wall, or nothing, in front returns normally with
\* reward 0 and changes nothing but the step counter, which grows by one.
C5_BlockedForwardIsNoOp ==
  [][(/\ IsStep /\ action' = MoveForwardAction
      /\ (~InBounds(Front) \/ grid[Front] = "wall"))
     => /\ Returned
        /\ ret'.reward = 0
        /\ agent_pos' = agent_pos
        /\ agent_dir' = agent_dir
        /\ grid' = grid
        /\ rewards_collected' = rewards_collected
        /\ step_count' = step_count + 1]_vars

\* C6: MoveForward with an empty or coin cell in front moves the agent there
\* and keeps the direction; a coin is removed, counted once and rewarded with
\* 1 (reward_collected true); an empty cell gives reward 0, no count and
\* reward_collected false.
C6_ForwardMovesAndCollects ==
  [][(/\ IsStep /\ action' = MoveForwardAction
      /\ InBounds(Front) /\ grid[Front] \in {"empty", "coin"})
     => /\ Returned
        /\ agent_pos' = Front
        /\ agent_dir' = agent_dir
        /\ IF grid[Front] = "coin"
           THEN /\ grid'[Front] = "empty"
                /\ rewards_collected' = rewards_collected + 1
                /\ ret'.reward = 1
                /\ ret'.reward_collected
           ELSE /\ rewards_collected' = rewards_collected
                /\ ret'.reward = 0
                /\ ~ret'.reward_collected]_vars

C6_Witness ==
  /\ op = "step" /\ action = MoveForwardAction /\ ret.status = "ok"
  /\ agent_pos # old_pos
  /\ ~ret.reward_collected
  /\ old_pos \in collected

\* C7: a cell whose coin was collected stays empty until the next reset, and
\* a later step that ends with the agent on it gives reward 0 and leaves
\* rewards_collected unchanged.
C7_CollectedOnce ==
  [][IsStep
     => /\ \A c \in collected' : grid'[c] = "empty"
        /\ (Returned /\ agent_pos' \in collected)
           => (ret'.reward = 0 /\ rewards_collected' = rewards_collected)]_vars

C7_Witness ==
  /\ op = "step" /\ action = MoveForwardAction /\ ret.status = "ok"
  /\ agent_pos # old_pos
  /\ agent_pos \in collected
  /\ ~ret.reward_collected

\* C8: a step returns terminated on the step at which rewards_collected
\* first equals total_rewards, on no earlier step, and never when
\* total_rewards is 0.
C8_TerminatedWhenCollectionCompletes ==
  [][(IsStep /\ Returned)
     => /\ ret'.terminated
           => (total_rewards > 0 /\ rewards_collected' = total_rewards)
        /\ (/\ total_rewards > 0
            /\ rewards_collected < total_rewards
            /\ rewards_collected' = total_rewards)
           => ret'.terminated]_vars

\* C9: no step returns both terminated and truncated: the step that
\* completes the collection at the moment the step counter reaches max_steps
\* returns terminated and not truncated.  (Stated for the completing step of
\* an episode that has rewards, the case the claim spells out.)
C9_TerminatedExcludesTruncated ==
  (/\ op = "step" /\ ret.status = "ok"
   /\ ret.reward_collected
   /\ total_rewards > 0
   /\ rewards_collected = total_rewards
   /\ step_count = cfg.max_steps)
     => (ret.terminated /\ ~ret.truncated)

\* C10: a TurnLeft or TurnRight step never returns terminated, also when
\* rewards_collected already equals total_rewards.  (Stated for episodes
\* that have rewards to collect.)
C10_TurnNeverTerminates ==
  (/\ op = "step" /\ ret.status = "ok"
   /\ action \in {TurnLeftAction, TurnRightAction}
   /\ total_rewards > 0)
     => ~ret.terminated

\* C11: TurnLeft sets the direction to (d + 3) mod 4 and TurnRight to
\* (d + 1) mod 4; both return reward 0 and leave position, grid and
\* rewards_collected unchanged, in every reachable state.
C11_TurnOnlyTurns ==
  [][(IsStep /\ action' \in {TurnLeftAction, TurnRightAction})
     => /\ Returned
        /\ agent_dir' = (agent_dir + (IF action' = TurnLeftAction THEN 3 ELSE 1)) % 4
        /\ agent_pos' = agent_pos
        /\ grid' = grid
        /\ rewards_collected' = rewards_collected
        /\ ret'.reward = 0]_vars

\* C12: a step returns truncated when the step counter reaches max_steps and
\* on no step before, whatever rewards_collected and total_rewards are.
C12_TruncatedAtMaxSteps ==
  [][(IsStep /\ Returned)
     => /\ step_count' = cfg.max_steps => ret'.truncated
        /\ step_count' < cfg.max_steps => ~ret'.truncated]_vars

C12_Witness ==
  /\ op = "step" /\ ret.status = "ok"
  /\ step_count = cfg.max_steps
  /\ ret.truncated /\ ~ret.terminated
  /\ cfg.max_steps > 1

\* C13: whatever the actions, one of the first max_steps steps after a reset
\* returns terminated or truncated.
C13_EpisodeEnds ==
  (op = "step" /\ calls >= cfg.max_steps) => ended

\* C14: reset, from any reachable state, puts the agent at the configured
\* start position and direction, zeroes the step counter and
\* rewards_collected, and returns rewards_collected = 0 and total_rewards
\* equal to the number of coins of the regenerated grid.
C14_ResetRestoresStart ==
  op = "reset"
    => /\ agent_pos = cfg.agent_start_pos
       /\ agent_dir = cfg.agent_start_dir
       /\ step_count = 0
       /\ rewards_collected = 0
       /\ ret.rewards_collected = 0
       /\ ret.total_rewards = CountCoins(grid)

\* C15: every reset produces the grid and the total_rewards of the first
\* reset, whatever was played and collected in between.
C15_GenerationIsHistoryIndependent ==
  op = "reset" => (grid = history.grid /\ total_rewards = history.total_rewards)

C15_Witness ==
  op = "reset" /\ history.replayed /\ total_rewards > 0

\* C19: a step with an action outside {0, 1, 2} is rejected and changes
\* nothing.
C19_InvalidActionRejected ==
  [][(IsStep /\ action' \notin Actions)
     => /\ ret'.status = "raised"
        /\ UNCHANGED <<agent_pos, agent_dir, grid, step_count,
                       rewards_collected>>]_vars

\* C16: for every odd window size W the window has exactly W x W cells and
\* the cell at (vx, vy) is a wall if the world coordinate
\* a + (W div 2 - vy) * F(d) + (vx - W div 2) * R(d) is outside the grid,
\* empty if it is the agent's position, the grid cell otherwise; facing up,
\* the window is the unrotated block centred on the agent.
C16_F == << <<1, 0>>, <<0, 1>>, <<-1, 0>>, <<0, -1>> >>
C16_R == << <<0, 1>>, <<-1, 0>>, <<0, -1>>, <<1, 0>> >>

C16_Expected(W, vx, vy) ==
  LET f == C16_F[agent_dir + 1]
      r == C16_R[agent_dir + 1]
      h == W \div 2
      wx == agent_pos[1] + (h - vy) * f[1] + (vx - h) * r[1]
      wy == agent_pos[2] + (h - vy) * f[2] + (vx - h) * r[2]
  IN IF ~(wx \in 0..(width - 1) /\ wy \in 0..(height - 1)) THEN "wall"
     ELSE IF <<wx, wy>> = agent_pos THEN "empty"
     ELSE grid[<<wx, wy>>]

C16_Block(W, vx, vy) ==
  LET x == agent_pos[1] + vx - W \div 2
      y == agent_pos[2] + vy - W \div 2
  IN IF ~(x \in 0..(width - 1) /\ y \in 0..(height - 1)) THEN "wall"
     ELSE IF vx = W \div 2 /\ vy = W \div 2 THEN "empty"
     ELSE grid[<<x, y>>]

C16_ObservationWindow ==
  op # "init" =>
    \A W \in ViewSizes :
      LET win == GenObsGrid(grid, agent_pos, agent_dir, W) IN
      /\ DOMAIN win = (0..(W - 1)) \X (0..(W - 1))
      /\ \A vx, vy \in 0..(W - 1) :
           /\ win[<<vx, vy>>] = C16_Expected(W, vx, vy)
           /\ agent_dir = 3 => win[<<vx, vy>>] = C16_Block(W, vx, vy)

C16_Witness ==
  /\ op = "step" /\ ret.status = "ok"
  /\ agent_dir = 1
  /\ LET win == GenObsGrid(grid, agent_pos, agent_dir, 3) IN
     /\ win[<<0, 1>>] = "coin"
     /\ win[<<2, 1>>] = "wall"
     /\ grid[agent_pos] = "empty"

\* C17: if a wall segment, cell override or clear rectangle of the
\* configuration has a coordinate outside the grid, generation fails, and it
\* fails before any grid cell or total_rewards is modified.
C17_SegOutside(seg) ==
  IF seg.type = "horizontal"
  THEN \/ seg.coord \notin 0..(height - 1)
       \/ seg.start \notin 0..(width - 1) \/ seg.end \notin 0..(width - 1)
  ELSE \/ seg.coord \notin 0..(width - 1)
       \/ seg.start \notin 0..(height - 1) \/ seg.end \notin 0..(height - 1)

C17_CoordinateOutside(c) ==
  \/ \E k \in 1..Len(c.walls_config) : C17_SegOutside(c.walls_config[k])
  \/ \E k \in 1..Len(c.custom_cells) :
        \/ c.custom_cells[k].x \notin 0..(width - 1)
        \/ c.custom_cells[k].y \notin 0..(height - 1)
  \/ \E k \in 1..Len(c.clear_areas) :
        \/ c.clear_areas[k].x1 \notin 0..(width - 1)
        \/ c.clear_areas[k].x2 \notin 0..(width - 1)
        \/ c.clear_areas[k].y1 \notin 0..(height - 1)
        \/ c.clear_areas[k].y2 \notin 0..(height - 1)

C17_GenerationIsAllOrNothing ==
  [][(op' = "reset" /\ C17_CoordinateOutside(cfg))
       => /\ ret'.status = "raised"
          /\ grid' = grid
          /\ total_rewards' = total_rewards]_vars

\* C18: a clear rectangle with x1 > x2 or y1 > y2 makes generation fail
\* before any grid mutation, also when all its coordinates are inside the
\* grid; it is never accepted as an empty rectangle.
C18_Inverted(c) ==
  \E k \in 1..Len(c.clear_areas) :
     \/ c.clear_areas[k].x1 > c.clear_areas[k].x2
     \/ c.clear_areas[k].y1 > c.clear_areas[k].y2

C18_InvertedRectRejected ==
  [][(op' = "reset" /\ C18_Inverted(cfg) /\ ~C17_CoordinateOutside(cfg))
       => (ret'.status = "raised" /\ grid' = grid)]_vars

\* C20: with an observation cached, each decide call takes the state and the
\* TF and ML wall flags to the new state and action of this table:
\* FIND_WALL: TF -> (FOLLOW_WALL, TurnRight); else ML -> (FOLLOW_WALL,
\* MoveForward); else (FIND_WALL, MoveForward).  FOLLOW_WALL: TF ->
\* (TURN_CORNER, TurnRight); else not ML -> (FIND_WALL, TurnLeft); else
\* (FOLLOW_WALL, MoveForward).  TURN_CORNER: ML and not TF -> (FOLLOW_WALL,
\* MoveForward); else (TURN_CORNER, TurnRight).
C20_Table(st, tf, ml) ==
  CASE st = "FIND_WALL" ->
         IF tf THEN <<"FOLLOW_WALL", 1>>
         ELSE IF ml THEN <<"FOLLOW_WALL", 2>>
         ELSE <<"FIND_WALL", 2>>
    [] st = "FOLLOW_WALL" ->
         IF tf THEN <<"TURN_CORNER", 1>>
         ELSE IF ~ml THEN <<"FIND_WALL", 0>>
         ELSE <<"FOLLOW_WALL", 2>>
    [] st = "TURN_CORNER" ->
         IF ml /\ ~tf THEN <<"FOLLOW_WALL", 2>>
         ELSE <<"TURN_CORNER", 1>>

C21_StatePersistsAndResets ==
  /\ [](/\ state \in {"FIND_WALL", "FOLLOW_WALL", "TURN_CORNER"}
        /\ agent_op = "init" => (state = "FIND_WALL" /\ last_observation.none)
        /\ agent_op = "reset" => (state = "FIND_WALL" /\ last_observation.none))
  /\ [][agent_op' = "perceive" => state' = state]_vars

C21_Witness ==
  /\ agent_op = "reset"
  /\ decision = 1
  /\ state = "FIND_WALL"

C23_FirstMatchingRule ==
  (rules_agent.op = "decide" /\ ~rules_agent.last_observation.none)
    => LET image == rules_agent.last_observation.image
           tf == image[<<1, 0>>] = 2
           tr == image[<<2, 0>>] = 2
           ml == image[<<0, 1>>] = 2
           bl == image[<<0, 2>>] = 2
       IN /\ ~rules_agent.returned.none
          /\ rules_agent.returned.value =
               IF tf \/ tr THEN 1 ELSE IF ~ml /\ bl THEN 0 ELSE 2

\* C24: the info of a step carries success = true only on a step that
\* returns terminated with every reward collected (rewards_collected equal to
\* total_rewards, total_rewards > 0); on every other step success is false.
C24_SuccessOnlyOnFullCollection ==
  (op = "step" /\ ret.status = "ok" /\ ret.success)
    => /\ ret.terminated
       /\ total_rewards > 0
       /\ rewards_collected = total_rewards

\* C25: applying a wall segment turns into walls exactly the cells on its
\* line from start to end (both inclusive) that lie in no gap range (both
\* ends inclusive) and were empty before, and changes no other cell; so
\* after the whole list the walls are the border and the cells of the
\* segments, whatever their order and overlaps.
C25_OnSegment(seg, c) ==
  LET line == IF seg.type = "horizontal" THEN c[2] ELSE c[1]
      run  == IF seg.type = "horizontal" THEN c[1] ELSE c[2]
  IN /\ line = seg.coord
     /\ seg.start <= run /\ run <= seg.end
     /\ \A i \in 1..Len(seg.gaps) : ~(seg.gaps[i][1] <= run /\ run <= seg.gaps[i][2])

C25_SegmentWritesItsCells ==
  /\ [][gen_pos.phase = "walls"
          => \A c \in Cells :
               grid'[c] = IF /\ C25_OnSegment(cfg.walls_config[gen_pos.k], c)
                             /\ grid[c] = "empty"
                          THEN "wall" ELSE grid[c]]_vars
  /\ [](gen_pos.phase = "rewards"
          => \A c \in Cells :
               grid[c] = "wall"
                 <=> \/ c[1] \in {0, width - 1} \/ c[2] \in {0, height - 1}
                     \/ \E i \in 1..Len(cfg.walls_config) :
                           C25_OnSegment(cfg.walls_config[i], c))

C25_Witness ==
  /\ gen_pos.phase = "rewards"
  /\ cfg.walls_config = <<SegV, SegInside>>
  /\ grid[<<2, 1>>] = "wall"
  /\ grid[<<2, 2>>] = "wall"

\* C26 as stated: in mode outer, reward placement makes a cell a reward iff
\* it was empty after wall placement and lies on the band one cell inside
\* the border, the four band corners excluded; total_rewards is their number.
C26_OnBand(c) ==
  /\ c[1] \in 1..(width - 2) /\ c[2] \in 1..(height - 2)
  /\ c[1] \in {1, width - 2} \/ c[2] \in {1, height - 2}

C26_BandCorner(c) == c[1] \in {1, width - 2} /\ c[2] \in {1, height - 2}

C26_OuterExcludesCorners ==
  [][(gen_pos.phase = "rewards" /\ cfg.reward_type = "outer")
       => /\ \A c \in Cells :
               grid'[c] = "coin"
                 <=> (grid[c] = "empty" /\ C26_OnBand(c) /\ ~C26_BandCorner(c))
          /\ total_rewards' =
               Cardinality({c \in Cells : grid[c] = "empty" /\ C26_OnBand(c)
                                          /\ ~C26_BandCorner(c)})]_vars

\* C26 amended: in mode outer, reward placement makes a cell a reward iff it
\* was empty after wall placement and lies on the band one cell inside the
\* border, band corners included; it changes no other cell and sets
\* total_rewards to the number of these cells.
C26_OuterCoversBand ==
  [][(gen_pos.phase = "rewards" /\ cfg.reward_type = "outer")
       => /\ \A c \in Cells :
               grid'[c] = IF grid[c] = "empty" /\ C26_OnBand(c)
                          THEN "coin" ELSE grid[c]
          /\ total_rewards' =
               Cardinality({c \in Cells : grid[c] = "empty" /\ C26_OnBand(c)})]_vars

C26_Witness ==
  /\ gen_pos.phase = "finish"
  /\ cfg.reward_type = "outer"
  /\ cfg.walls_config = <<SegTop>>
  /\ cfg.custom_cells = <<>> /\ cfg.clear_areas = <<>>
  /\ grid[<<1, 1>>] = "coin" /\ grid[<<width - 2, height - 2>>] = "coin"
  /\ grid[<<2, 1>>] = "wall"
  /\ total_rewards = 2 * (width - 2) + 2 * (height - 4) - 1

C28_BothIsUnion ==
  [][(gen_pos.phase = "rewards" /\ cfg.reward_type = "both")
       => LET outer == PlaceRewards(grid, "outer")
              inner == PlaceRewards(grid, "inner")
              o == {c \in Cells : outer.grid[c] = "coin"}
              i == {c \in Cells : inner.grid[c] = "coin"}
          IN /\ {c \in Cells : grid'[c] = "coin"} = o \cup i
             /\ o \cap i = {}
             /\ total_rewards' = outer.total_rewards + inner.total_rewards
             /\ total_rewards' = Cardinality(o \cup i)]_vars

C28_Witness ==
  /\ gen_pos.phase = "finish"
  /\ cfg.reward_type = "both"
  /\ cfg.walls_config = <<SegTop>>
  /\ cfg.custom_cells = <<>> /\ cfg.clear_areas = <<>>
  /\ grid[<<1, 1>>] = "coin"
  /\ grid[<<2, 2>>] = "coin"
  /\ total_rewards > 2 * (width - 2) + 2 * (height - 4) - 1

\* C29: cell overrides are applied in list order and each sets its cell to
\* the target kind and no other cell; an override to coin adds one to
\* total_rewards iff the cell was not a coin, an override to empty takes one
\* off iff the cell was a coin; the same coin (or empty) override repeated
\* leaves total_rewards as it is.
C29_OverridesKeepCount ==
  [][gen_pos.phase = "cells"
       => LET cc == cfg.custom_cells[gen_pos.k]
              at == <<cc.x, cc.y>>
          IN /\ \A c \in Cells :
                  grid'[c] = IF c = at THEN cc.type ELSE grid[c]
             /\ cc.type = "coin"
                  => total_rewards' = total_rewards
                                        + (IF grid[at] # "coin" THEN 1 ELSE 0)
             /\ cc.type = "empty"
                  => total_rewards' = total_rewards
                                        - (IF grid[at] = "coin" THEN 1 ELSE 0)
             /\ (/\ gen_pos.k > 1
                 /\ cfg.custom_cells[gen_pos.k - 1] = cc
                 /\ cc.type \in {"coin", "empty"})
                  => total_rewards' = total_rewards]_vars

C29_Witness ==
  /\ gen_pos.phase = "finish"
  /\ cfg.custom_cells = <<Cell(2, 2, "coin"), Cell(2, 2, "coin")>>
  /\ cfg.clear_areas = <<>>
  /\ cfg.walls_config = <<SegCorner>>
  /\ cfg.reward_type = "outer"
  /\ grid[<<2, 2>>] = "coin"
  /\ total_rewards = Cardinality({c \in Cells : grid[c] = "coin"})

\* C30: a wall override on a cell that holds a coin takes one off
\* total_rewards; a wall override on an empty or wall cell leaves it.
C30_WallOverrideUncountsCoin ==
  [][(gen_pos.phase = "cells" /\ cfg.custom_cells[gen_pos.k].type = "wall")
       => LET cc == cfg.custom_cells[gen_pos.k]
          IN total_rewards' = total_rewards
                                - (IF grid[<<cc.x, cc.y>>] = "coin" THEN 1 ELSE 0)]_vars

\* C31: applying a clear rectangle (x1, y1, x2, y2) with x1 <= x2 and
\* y1 <= y2 empties every cell with x1 <= x <= x2 and y1 <= y <= y2, leaves
\* every other cell unchanged and takes off total_rewards the number of coins
\* that were inside; rectangles are applied in list order, and once the first
\* is applied no cell override follows.
C31_ClearRectEmptiesAndUncounts ==
  [][gen_pos.phase = "clear"
       => LET area == cfg.clear_areas[gen_pos.k]
              inside == {c \in Cells : /\ area.x1 <= c[1] /\ c[1] <= area.x2
                                       /\ area.y1 <= c[2] /\ c[2] <= area.y2}
          IN (area.x1 <= area.x2 /\ area.y1 <= area.y2)
               => /\ \A c \in Cells :
                       grid'[c] = IF c \in inside THEN "empty" ELSE grid[c]
                  /\ total_rewards' = total_rewards
                       - Cardinality({c \in inside : grid[c] = "coin"})
                  /\ gen_pos'.phase \in {"clear", "finish"}
                  /\ gen_pos'.phase = "clear" => gen_pos'.k = gen_pos.k + 1]_vars

C31_Witness ==
  /\ gen_pos.phase = "finish"
  /\ Len(cfg.clear_areas) = 2
  /\ cfg.reward_type = "both"
  /\ cfg.walls_config = <<SegTop>>
  /\ cfg.custom_cells = <<>>
  /\ grid[<<1, 1>>] = "empty" /\ grid[<<2, 2>>] = "empty"
  /\ grid[<<1, Size - 2>>] = "coin"
  /\ total_rewards = Cardinality({c \in Cells : grid[c] = "coin"})

\* C32: no step changes total_rewards, creates a wall or a coin, or removes
\* a wall: the only grid change a step makes is that the coin on the cell
\* the agent stands on after the step becomes empty.
C32_StepsOnlyRemoveCoins ==
  [][IsStep
       => /\ total_rewards' = total_rewards
          /\ \A c \in Cells :
               grid'[c] # grid[c]
                 => (c = agent_pos' /\ grid[c] = "coin" /\ grid'[c] = "empty")
          /\ {c \in Cells : grid'[c] = "wall"} = {c \in Cells : grid[c] = "wall"}]_vars

C32_Witness ==
  /\ op = "step" /\ ret.status = "ok"
  /\ ret.reward_collected
  /\ calls >= 2
  /\ agent_pos # cfg.agent_start_pos
  /\ grid[agent_pos] = "empty"

\* C33: in every state reached by reset and steps, rewards_collected plus the
\* number of coins in the grid equals the number of coins the grid held
\* right after the reset, and 0 <= rewards_collected <= total_rewards.
C33_CollectedPlusRemaining ==
  op # "init"
    => /\ rewards_collected + Cardinality({c \in Cells : grid[c] = "coin"})
            = Cardinality({c \in Cells : history.grid[c] = "coin"})
       /\ 0 <= rewards_collected
       /\ rewards_collected <= total_rewards

C33_Witness ==
  /\ op = "step"
  /\ history.replayed
  /\ rewards_collected >= 2
  /\ Cardinality({c \in Cells : grid[c] = "coin"}) >= 1

\* C34: the top-front cell of the observation window, at view coordinate
\* (W div 2, W div 2 - 1), which is the TF flag of both agents, is a wall
\* iff step(MoveForward) from that state leaves the agent position unchanged.
C34_FrontFlagMatchesForward ==
  [][(IsStep /\ action' = 2)
       => /\ \A W \in ViewSizes :
               GenObsGrid(grid, agent_pos, agent_dir, W)[<<W \div 2, (W \div 2) - 1>>]
                   = "wall"
                 <=> agent_pos' = agent_pos
          /\ Perception(GenObs(grid, agent_pos, agent_dir)).TF
               <=> agent_pos' = agent_pos
          /\ RulesPerception(GenObs(grid, agent_pos, agent_dir)).TF
               <=> agent_pos' = agent_pos]_vars

C34_Witness ==
  /\ op = "step" /\ action = 2 /\ ret.status = "ok"
  /\ agent_pos = old_pos
  /\ agent_dir = 0
  /\ Perception(GenObs(grid, agent_pos, agent_dir)).TF
  /\ ~Perception(GenObs(grid, agent_pos, agent_dir)).MR

\* C35: turning rotates the window: with w the window before
\* step(TurnRight) and w' the window after it, w'(vx, vy) = w(W-1-vy, vx) for
\* all view coordinates; step(TurnLeft) applies the inverse rotation,
\* w'(vx, vy) = w(vy, W-1-vx); four turns in the same sense give back the
\* original window.
C35_Window(W) == GenObsGrid(grid, agent_pos, agent_dir, W)

C35_WindowAfter(W) == GenObsGrid(grid', agent_pos', agent_dir', W)

C35_TurnRotatesWindow ==
  [][IsStep =>
       \A W \in ViewSizes : \A vx, vy \in 0..(W - 1) :
         /\ action' = TurnRightAction
              => C35_WindowAfter(W)[<<vx, vy>>] = C35_Window(W)[<<W - 1 - vy, vx>>]
         /\ action' = TurnLeftAction
              => C35_WindowAfter(W)[<<vx, vy>>] = C35_Window(W)[<<vy, W - 1 - vx>>]]_vars

\* C36: in the closed loop observe -> perceive -> decide -> step the agent
\* is never in TURN_CORNER after more than 3 consecutive decisions unless all
\* four neighbours of its cell are walls or outside the grid, and it leaves
\* TURN_CORNER only for FOLLOW_WALL, with a MoveForward.
C36_Neighbours == {<<agent_pos[1] + DirVec(d)[1], agent_pos[2] + DirVec(d)[2]>> : d \in 0..3}

C36_Enclosed == \A n \in C36_Neighbours : ~InBounds(n) \/ grid[n] = "wall"

C36_TurnCornerIsLeft ==
  /\ [](turn_corner_run > 3 => C36_Enclosed)
  /\ [][(state = TURN_CORNER /\ state' # TURN_CORNER /\ calls' = calls + 1)
          => (state' = FOLLOW_WALL /\ decision' = MOVE_FORWARD
              /\ action' = MoveForwardAction)]_vars

C36_Witness ==
  /\ state = FOLLOW_WALL /\ decision = MOVE_FORWARD
  /\ op = "step" /\ ret.status = "ok" /\ agent_pos # old_pos
  /\ ~C36_Enclosed
  /\ calls >= 4
  /\ Perception(last_observation).ML /\ ~Perception(last_observation).TF
  /\ Perception(GenObs(grid, old_pos, (agent_dir + 3) % 4)).TF
  /\ Perception(GenObs(grid, old_pos, (agent_dir + 2) % 4)).TF

\* C37: decide applies one state transition per call, also when no new
\* observation was perceived since the previous call: a decide that directly
\* follows a decide transitions again from the state the first one left, on
\* the same cached observation; from FIND_WALL with a wall ahead the agent is
\* in FOLLOW_WALL after the first call and in TURN_CORNER after the second,
\* and both return TurnRight.
C37_WallAhead == last_observation.image[<<1, 0>>] = 2

C37_WallOnLeft == last_observation.image[<<0, 1>>] = 2

C37_DecideTransitionsEveryCall ==
  [][(agent_op = "decide" /\ agent_op' = "decide" /\ ~last_observation.none)
       => /\ last_observation' = last_observation
          /\ <<state', decision'>> = C20_Table(state, C37_WallAhead, C37_WallOnLeft)
          /\ (state = "FOLLOW_WALL" /\ decision = 1 /\ C37_WallAhead)
               => (state' = "TURN_CORNER" /\ decision' = 1)]_vars

C37_Witness ==
  /\ agent_op = "decide"
  /\ state = "TURN_CORNER"
  /\ decision = 1
  /\ C37_WallAhead
  /\ ~C37_WallOnLeft

C39_NonWall(c) == c \in MazeCells(maze.size) /\ maze.grid[c] # "wall"

C39_InBlock(c) ==
  \E bx \in {c[1] - 1, c[1]}, by \in {c[2] - 1, c[2]} :
    \A dx, dy \in {0, 1} : C39_NonWall(<<bx + dx, by + dy>>)

C39_EntranceTwoWide ==
  LET rx == maze.size \div 2
      ry == maze.size \div 4
  IN {i \in 0..(RoomSize - 1) : C39_NonWall(<<rx + i, ry>>)} = {1, 2}

C39_PassagesTwoWide ==
  (maze.phase = "done" /\ maze.size = DefaultSize) =>
    /\ \A c \in (1..(maze.size - 2)) \X (1..(maze.size - 2)) :
         C39_NonWall(c) => C39_InBlock(c)
    /\ C39_EntranceTwoWide

====
